---- MODULE Spec2Model ----
(***************************************************************************)
(* Model of safe-agent's approval pipeline: SafeAgent (agent.py) and       *)
(* DiffGateRunner (diff_gate.py).  One behaviour is one constructed        *)
(* runner processing one plan of changes.  A second specification,         *)
(* SpecPath, exercises the path-safety resolver as a pure function of a    *)
(* raw path string and a filesystem (symlink) state.  A third, SpecAudit,  *)
(* runs a SafeAgent constructed with or without an audit export path.      *)
(* SpecReport applies the report builders to event logs and flag states,   *)
(* SpecCollect the diff collector to git outputs; SpecDiffRef and          *)
(* SpecPolicy start at the constructor, SpecCli follows main() around the  *)
(* run, and SpecRerun invokes run() twice on one object.                   *)
(***************************************************************************)
EXTENDS Integers, Sequences, FiniteSets, TLC

(***************************************************************************)
(* Bounds of the model.                                                    *)
(***************************************************************************)
\* longest plan of changes a run processes
MaxChanges == 2
\* longest raw path string given to the resolver in SpecPath
MaxPathLen == 4

(***************************************************************************)
(* PATHS.  A raw path is a sequence of characters.  The alphabet keeps one *)
(* representative per class the resolver distinguishes: "a" a letter,      *)
(* "s" a letter run that contains one of the deny rule's secret substrings *)
(* (.env, id_rsa, ...), and the separators and prefixes the code tests.    *)
(* A resolved path is the sequence of its components below "/".            *)
(***************************************************************************)
NUL == "NUL"
PathAlphabet == {"a", "/", ".", "~", "\\", ":", " ", NUL}
Whitespace == {" "}
Alpha == {"a", "s"}

\* Python's None for an optional path
NoPath == [ok |-> FALSE, path |-> <<>>]
SomePath(p) == [ok |-> TRUE, path |-> p]

\* the canonical working root, Path(self.working_directory).resolve()
WorkingRoot == << <<"w">> >>

RECURSIVE lstrip(_)
lstrip(s) == IF s # <<>> /\ Head(s) \in Whitespace THEN lstrip(Tail(s)) ELSE s

RECURSIVE rstrip(_)
rstrip(s) ==
    IF s # <<>> /\ s[Len(s)] \in Whitespace THEN rstrip(SubSeq(s, 1, Len(s) - 1)) ELSE s

\* str.strip()
strip(s) == rstrip(lstrip(s))

\* str.startswith for a one- or two-character prefix
startswith(s, prefix) ==
    Len(s) >= Len(prefix) /\ SubSeq(s, 1, Len(prefix)) = prefix

\* "c in s" for a single character
contains(s, c) == \E k \in 1..Len(s) : s[k] = c

\* raw.split("/") : the runs of characters between slashes
RECURSIVE split(_, _)
split(s, cur) ==
    IF s = <<>> THEN <<cur>>
    ELSE IF Head(s) = "/" THEN <<cur>> \o split(Tail(s), <<>>)
    ELSE split(Tail(s), Append(cur, Head(s)))

\* pathlib's Path(raw).parts for a relative path: empty and "." parts are dropped
RECURSIVE dropDots(_)
dropDots(parts) ==
    IF parts = <<>> THEN <<>>
    ELSE IF Head(parts) = <<>> \/ Head(parts) = <<".">> THEN dropDots(Tail(parts))
    ELSE <<Head(parts)>> \o dropDots(Tail(parts))

parts(raw) == dropDots(split(raw, <<>>))

\* Path.is_absolute() on POSIX
is_absolute(raw) == startswith(raw, <<"/">>)

\* A filesystem state is its set of symbolic links: at |-> to, both canonical
\* absolute paths; link targets are themselves link-free.
IsLink(fs, p) == \E l \in fs : l.at = p
LinkTarget(fs, p) == (CHOOSE l \in fs : l.at = p).to

\* Path.resolve(): walk the parts from the canonical start, ".." pops a
\* component (and stays at "/"), a component that is a link is replaced by
\* its target.
RECURSIVE resolve(_, _, _)
resolve(cur, rest, fs) ==
    IF rest = <<>> THEN cur
    ELSE IF Head(rest) = <<".", ".">> THEN
        resolve(IF cur = <<>> THEN <<>> ELSE SubSeq(cur, 1, Len(cur) - 1), Tail(rest), fs)
    ELSE LET nxt == Append(cur, Head(rest))
         IN  resolve(IF IsLink(fs, nxt) THEN LinkTarget(fs, nxt) ELSE nxt, Tail(rest), fs)

\* resolved.relative_to(base) raises no ValueError: base is a prefix of resolved
relative_to(resolved, base) ==
    Len(resolved) >= Len(base) /\ SubSeq(resolved, 1, Len(base)) = base

\* a bug that keeps the textual checks and drops the containment check
resolve_path_safe_nocontain(path, fs) ==
    LET raw == strip(path)
    IN  IF raw = <<>> \/ raw = <<".">> \/ raw = <<".", "/">> THEN NoPath
        ELSE IF startswith(raw, <<"~">>) THEN NoPath
        ELSE IF contains(raw, NUL) THEN NoPath
        ELSE IF Len(raw) >= 2 /\ raw[2] = ":" /\ raw[1] \in Alpha THEN NoPath
        ELSE IF startswith(raw, <<"\\", "\\">>) THEN NoPath
        ELSE IF is_absolute(raw) THEN NoPath
        ELSE SomePath(resolve(WorkingRoot, parts(raw), fs))

\* SafeAgent._resolve_path_safe / DiffGateRunner._resolve_path_safe
resolve_path_safe(path, fs) ==
    LET raw == strip(path)
    IN  IF raw = <<>> \/ raw = <<".">> \/ raw = <<".", "/">> THEN NoPath
        ELSE IF startswith(raw, <<"~">>) THEN NoPath
        ELSE IF contains(raw, NUL) THEN NoPath
        ELSE IF Len(raw) >= 2 /\ raw[2] = ":" /\ raw[1] \in Alpha THEN NoPath
        ELSE IF startswith(raw, <<"\\", "\\">>) THEN NoPath
        ELSE IF is_absolute(raw) THEN NoPath
        ELSE LET resolved == resolve(WorkingRoot, parts(raw), fs)
             IN  IF relative_to(resolved, WorkingRoot) THEN SomePath(resolved) ELSE NoPath

\* filesystem states the resolver is exercised on: no links; a link w/a that
\* leaves the root; a link w/a that stays inside it
FsStates ==
    { {},
      { [at |-> << <<"w">>, <<"a">> >>, to |-> << <<"o">> >>] },
      { [at |-> << <<"w">>, <<"a">> >>, to |-> << <<"w">>, <<"b">> >>] } }

(***************************************************************************)
(* RISK LEVELS, POLICY DECISIONS, OUTCOMES.                                *)
(***************************************************************************)
\* Python's None in a field that otherwise holds a string
None == "None"

RiskLevels == {"low", "medium", "high", "critical"}

\* SafeAgent._risk_severity / DiffGateRunner._risk_severity
risk_severity(level) ==
    CASE level = "low" -> 0
      [] level = "medium" -> 1
      [] level = "high" -> 2
      [] level = "critical" -> 3
      [] OTHER -> 99

\* a bug that lets a later, lower risk overwrite the maximum
note_risk_last(seen, level) == level

\* a bug that keeps the first risk level noted
note_risk_first(seen, level) == IF seen = None THEN level ELSE seen

\* SafeAgent._note_risk / DiffGateRunner._note_risk, as the new value of
\* max_risk_level_seen
note_risk(seen, level) ==
    IF seen = None THEN level
    ELSE IF risk_severity(level) > risk_severity(seen) THEN level
    ELSE seen

\* a bug that notes a risk for a change the analyzer never saw
unknown_action_risk_low(seen) == IF seen = None THEN "low" ELSE seen

\* the unknown-action branch records its event without calling _note_risk:
\* the new value of max_risk_level_seen
unknown_action_risk(seen) == seen

PolicyDecisions == {"allow", "deny", "require_approval"}

ApprovedOutcomes ==
    {"approved_non_interactive", "approved_auto_low_risk", "approved_interactive"}

Outcomes ==
    {"blocked_unsafe_path", "blocked_unknown_action", "blocked_by_policy_deny",
     "blocked_by_fail_on_risk", "blocked_non_interactive_requires_approval",
     "blocked_dry_run", "rejected_interactive"} \cup ApprovedOutcomes

ValidActions == {"create", "modify", "delete"}

(***************************************************************************)
(* POLICY.  The rules of the builtin policy are the code's; the evaluator  *)
(* and the scanner are collaborators of the impact-preview package, taken  *)
(* at their interface: first matching rule in priority order, else the     *)
(* policy's default decision with no rule id.                              *)
(***************************************************************************)
\* the deny rule's target_contains list (.env, .ssh, id_rsa, ...), one
\* representative
SecretSubstrings == {"s"}

Rule(id, decision, priority, target_contains, min_risk, max_risk) ==
    [id |-> id, decision |-> decision, priority |-> priority,
     target_contains |-> target_contains, min_risk_level |-> min_risk,
     max_risk_level |-> max_risk]

DenySecretsRule ==
    Rule("builtin:deny-secrets-and-keys", "deny", 0, SecretSubstrings, None, None)

AllowLowMediumRule ==
    Rule("builtin:allow-low-and-medium-risk", "allow", 100, {}, None, "medium")

\* a bug that keeps the allow rule in compliance mode
builtin_policy_always_allow(compliance) ==
    [rules |-> <<DenySecretsRule, AllowLowMediumRule>>, default |-> "require_approval"]

\* a bug that lets the allow rule take precedence over the deny rule
builtin_policy_allow_first(compliance) ==
    [rules |-> IF compliance THEN <<DenySecretsRule>>
               ELSE <<AllowLowMediumRule, DenySecretsRule>>,
     default |-> "require_approval"]

\* SafeAgent._init_governance / DiffGateRunner._build_policy_config: the
\* builtin PolicyConfig
builtin_policy(compliance) ==
    [rules |-> IF compliance THEN <<DenySecretsRule>>
               ELSE <<DenySecretsRule, AllowLowMediumRule>>,
     default |-> "require_approval"]

\* load_policy_from_file: a policy file of the working directory with two
\* deny rules and an unconditional allow rule
file_policy ==
    [rules |-> << Rule("file:deny-secrets", "deny", 0, SecretSubstrings, None, None),
                  Rule("file:deny-critical", "deny", 1, {}, "critical", None),
                  Rule("file:allow-all", "allow", 50, {}, None, None) >>,
     default |-> "require_approval"]

\* load_policy_preset: a preset that allows low risk and denies by default
preset_policy ==
    [rules |-> << Rule("preset:allow-low", "allow", 10, {}, None, "low") >>,
     default |-> "deny"]

PolicySources == {"builtin", "file:policy.json", "preset:strict"}

policy_config(source, compliance) ==
    CASE source = "builtin" -> builtin_policy(compliance)
      [] source = "file:policy.json" -> file_policy
      [] OTHER -> preset_policy

\* str(resolved_path) contains the substring
target_has(target, sub) ==
    \E k \in 1..Len(target) : \E j \in 1..Len(target[k]) : target[k][j] = sub

rule_matches(rule, target, risk) ==
    /\ rule.target_contains = {} \/ \E sub \in rule.target_contains : target_has(target, sub)
    /\ rule.min_risk_level = None \/ risk_severity(risk) >= risk_severity(rule.min_risk_level)
    /\ rule.max_risk_level = None \/ risk_severity(risk) <= risk_severity(rule.max_risk_level)

\* PolicyEvaluator.evaluate(config, request, risk_level): the rules are
\* listed in priority order; the result is <<rule>> or <<>>
RECURSIVE first_match(_, _, _)
first_match(rules, target, risk) ==
    IF rules = <<>> THEN <<>>
    ELSE IF rule_matches(Head(rules), target, risk) THEN <<Head(rules)>>
    ELSE first_match(Tail(rules), target, risk)

evaluate(config, target, risk) ==
    LET hit == first_match(config.rules, target, risk)
    IN  IF hit = <<>> THEN [decision |-> config.default, matched_rule_id |-> None]
        ELSE [decision |-> hit[1].decision, matched_rule_id |-> hit[1].id]

\* PromptInjectionScanner.scan_action_request(request): findings on a payload
\* that carries an injection
scan(content) ==
    IF content = "inject"
    THEN [findings |-> {"prompt_injection"}, max_severity |-> "high"]
    ELSE [findings |-> {}, max_severity |-> None]

(***************************************************************************)
(* CHANGES AND PLANS.  A change is what the planner (SafeAgent) or the     *)
(* diff collector (DiffGateRunner) hands to the pipeline; content is the   *)
(* payload the scanner reads (the planned content, or the file on disk).   *)
(***************************************************************************)
Change(action, path, content) == [action |-> action, path |-> path, content |-> content]

PlainPath == <<"a">>
SecretPath == <<"s">>
TraversalPath == <<".", ".", "/", "a">>

ChangeUniverse ==
    { Change("create", PlainPath, ""),
      Change("modify", SecretPath, "inject"),
      Change("delete", TraversalPath, ""),
      Change("chmod", PlainPath, "") }

Plans == UNION { [1..n -> ChangeUniverse] : n \in 0..MaxChanges }

\* the filesystem of a run has no symbolic links
RunFs == {}

Engines == {"SafeAgent", "DiffGateRunner"}

(***************************************************************************)
(* STATE.                                                                  *)
(***************************************************************************)
VARIABLES
    engine,                   \* which runner was constructed
    requested_auto_approve,   \* SafeAgent.__init__'s auto_approve_low_risk argument
    auto_approve_low_risk,
    dry_run,
    non_interactive,
    fail_on_risk,
    compliance_mode,
    policy_source,
    changes_made,             \* list of references (plan indexes) to changes
    changes_rejected,
    max_risk_level_seen,
    risk_policy_failed,
    governance_policy_failed,
    governance_policy_reason,
    governance_events,
    audit_trail,
    audit_export_path,        \* SafeAgent.__init__'s audit_export_path argument
    audit_file,               \* the file at the export path: <<>> or <<trail written>>
    plan,                     \* plan["changes"] / the collected diff changes
    idx,                      \* position of the for loop in the plan
    pc,                       \* where run() stands
    locals,                   \* _preview_and_approve's locals across a suspension
    approved,                 \* value returned by _preview_and_approve
    result,                   \* dict returned by run()
    calls,                    \* collaborator calls and filesystem effects, in order
    path_in,                  \* SpecPath: the raw path given to the resolver
    fs_in,                    \* SpecPath: the filesystem it is resolved against
    path_out,                 \* SpecPath: what the resolver returned
    report,                   \* what build_machine_report returned
    diff_ref,                 \* DiffGateRunner.diff_ref: <<>> for None, else <<ref>>
    git_status,               \* the lines git diff --name-status prints
    git_untracked,            \* the lines git ls-files --others prints
    collected,                \* what _collect_diff_changes returned
    diff_ref_arg,             \* __init__'s diff_ref argument: <<>> for None, else <<raw>>
    policy_path,              \* __init__'s policy_path argument, likewise
    policy_preset,            \* __init__'s policy_preset argument, likewise
    construct,                \* how __init__ ended, and the policy file it loaded
    json_out,                 \* cli: a --json-out path was given
    policy_report,            \* cli: a --policy-report path was given
    raised,                   \* cli: the exception run() ended with, or None
    artifacts,                \* cli: the files written, in order
    exit_code,                \* cli: <<>> while running, else <<code>>
    run_no                    \* how many times run() was invoked on the object

path_vars == <<path_in, fs_in, path_out>>

audit_vars == <<audit_trail, audit_file>>

\* state outside the runner object, which run() never touches
collect_vars == <<diff_ref, git_status, git_untracked, collected>>

arg_vars == <<diff_ref_arg, policy_path, policy_preset>>

cli_vars == <<json_out, policy_report, raised, artifacts, exit_code>>

side_vars == <<report, collect_vars, arg_vars, construct, cli_vars, run_no>>

config_vars ==
    <<engine, requested_auto_approve, auto_approve_low_risk, dry_run, non_interactive,
      fail_on_risk, compliance_mode, policy_source, audit_export_path, path_vars,
      side_vars>>

flag_vars ==
    <<max_risk_level_seen, risk_policy_failed, governance_policy_failed,
      governance_policy_reason>>

vars ==
    <<engine, requested_auto_approve, auto_approve_low_risk, dry_run, non_interactive,
      fail_on_risk, compliance_mode, policy_source, changes_made, changes_rejected,
      max_risk_level_seen, risk_policy_failed, governance_policy_failed,
      governance_policy_reason, governance_events, audit_trail, audit_export_path,
      audit_file, plan, idx, pc, locals, approved, result, calls, path_in, fs_in,
      path_out, report, diff_ref, git_status, git_untracked, collected, diff_ref_arg,
      policy_path, policy_preset, construct, json_out, policy_report, raised,
      artifacts, exit_code, run_no>>

NoLocals ==
    [risk_level |-> None, policy_decision |-> None, matched_rule_id |-> None,
     scanner_severity |-> None, scanner_reason_ids |-> {}]

NoResult == [returned |-> FALSE, success |-> FALSE]

NoSummary ==
    [total_changes_planned |-> 0, changes_approved |-> 0, changes_rejected |-> 0,
     changes_executed |-> 0, max_risk_level_seen |-> None, policy_violations |-> 0]

Call(op, k) == [op |-> op, idx |-> k]

\* no report has been built
NoReport ==
    [built |-> FALSE, run_status |-> None, success |-> FALSE,
     planned_changes |-> 0, status |-> None, blocking_rule_ids |-> {},
     recommended_next_actions |-> <<>>]

\* _collect_diff_changes has not returned
NoCollected == [returned |-> FALSE, error |-> FALSE, changes |-> <<>>]

\* __init__ returned; loaded is the policy file it read, if any
Constructed(loaded) == [done |-> TRUE, error |-> None, loaded |-> loaded]

\* the runner is not driven by the command line
CliIdle ==
    /\ json_out = FALSE
    /\ policy_report = FALSE
    /\ raised = None
    /\ artifacts = <<>>
    /\ exit_code = <<>>

\* the state outside the runner before anything was done with it
SideIdle ==
    /\ report = NoReport
    /\ diff_ref = <<>>
    /\ git_status = <<>>
    /\ git_untracked = <<>>
    /\ collected = NoCollected
    /\ diff_ref_arg = <<>>
    /\ policy_path = <<>>
    /\ policy_preset = <<>>
    /\ construct = Constructed(NoPath)
    /\ CliIdle
    /\ run_no = 1

\* a bug that honours the caller's request in compliance mode
init_auto_approve_requested(requested, compliance) == requested

\* SafeAgent.__init__: compliance mode forces auto-approve off
init_auto_approve(requested, compliance) ==
    IF compliance THEN FALSE ELSE requested /\ ~compliance

\* the state after SafeAgent.__init__ / DiffGateRunner.__init__; the diff gate
\* has no interactive, auto-approve or dry-run setting: it never prompts and
\* never executes
Init ==
    /\ engine \in Engines
    /\ compliance_mode \in BOOLEAN
    /\ fail_on_risk \in RiskLevels \cup {None}
    /\ policy_source \in PolicySources
    /\ requested_auto_approve \in (IF engine = "SafeAgent" THEN BOOLEAN ELSE {FALSE})
    /\ dry_run \in (IF engine = "SafeAgent" THEN BOOLEAN ELSE {FALSE})
    /\ non_interactive \in (IF engine = "SafeAgent" THEN BOOLEAN ELSE {TRUE})
    /\ auto_approve_low_risk = init_auto_approve(requested_auto_approve, compliance_mode)
    /\ changes_made = <<>>
    /\ changes_rejected = <<>>
    /\ max_risk_level_seen = None
    /\ risk_policy_failed = FALSE
    /\ governance_policy_failed = FALSE
    /\ governance_policy_reason = None
    /\ governance_events = <<>>
    /\ audit_trail = [changes |-> <<>>, finalized |-> FALSE, summary |-> NoSummary,
                      audit_trail_complete |-> FALSE]
    /\ audit_export_path = None
    /\ audit_file = <<>>
    /\ plan = <<>>
    /\ idx = 0
    /\ pc = "ready"
    /\ locals = NoLocals
    /\ approved = FALSE
    /\ result = NoResult
    /\ calls = <<>>
    /\ path_in = <<>>
    /\ fs_in = {}
    /\ path_out = NoPath
    /\ SideIdle

(***************************************************************************)
(* HELPERS OF THE PIPELINE.                                                *)
(***************************************************************************)
\* a bug that records nothing on the unknown-action branch
record_governance_event_skip_unknown(events, path, action, risk_level, policy_decision, matched_rule_id, scanner_severity, scanner_reason_ids, outcome) ==
    IF outcome = "blocked_unknown_action" THEN events
    ELSE Append(events,
           [path |-> path, action |-> action, risk_level |-> risk_level,
            policy_decision |-> policy_decision, matched_rule_id |-> matched_rule_id,
            scanner_severity |-> scanner_severity,
            scanner_reason_ids |-> scanner_reason_ids, outcome |-> outcome])

\* a bug that inserts the new event at the front of the log
record_governance_event_prepend(events, path, action, risk_level, policy_decision, matched_rule_id, scanner_severity, scanner_reason_ids, outcome) ==
    <<[path |-> path, action |-> action, risk_level |-> risk_level,
       policy_decision |-> policy_decision, matched_rule_id |-> matched_rule_id,
       scanner_severity |-> scanner_severity,
       scanner_reason_ids |-> scanner_reason_ids, outcome |-> outcome]>> \o events

\* a bug that records every event without its policy decision
record_governance_event_no_decision(events, path, action, risk_level, policy_decision, matched_rule_id, scanner_severity, scanner_reason_ids, outcome) ==
    Append(events,
           [path |-> path, action |-> action, risk_level |-> risk_level,
            policy_decision |-> None, matched_rule_id |-> matched_rule_id,
            scanner_severity |-> scanner_severity,
            scanner_reason_ids |-> scanner_reason_ids, outcome |-> outcome])

\* SafeAgent._record_governance_event / DiffGateRunner._record_governance_event
record_governance_event(events, path, action, risk_level, policy_decision, matched_rule_id, scanner_severity, scanner_reason_ids, outcome) ==
    Append(events,
           [path |-> path, action |-> action, risk_level |-> risk_level,
            policy_decision |-> policy_decision, matched_rule_id |-> matched_rule_id,
            scanner_severity |-> scanner_severity,
            scanner_reason_ids |-> scanner_reason_ids, outcome |-> outcome])

\* a bug that compares the severities the wrong way round
fail_on_risk_triggered_below(threshold, risk) ==
    threshold # None /\ risk_severity(risk) <= risk_severity(threshold)

\* self.fail_on_risk and _risk_severity(risk) >= _risk_severity(self.fail_on_risk)
fail_on_risk_triggered(threshold, risk) ==
    threshold # None /\ risk_severity(risk) >= risk_severity(threshold)

\* a bug that checks fail-on-risk before the policy decision
agent_decision_risk_first(pd, risk, triggered, nonint, auto, dry) ==
    IF triggered THEN "blocked_by_fail_on_risk"
    ELSE IF pd = "deny" THEN "blocked_by_policy_deny"
    ELSE IF nonint THEN
        (IF pd = "allow" THEN "approved_non_interactive"
         ELSE "blocked_non_interactive_requires_approval")
    ELSE IF auto /\ risk = "low" /\ pd = "allow" THEN "approved_auto_low_risk"
    ELSE IF dry THEN "blocked_dry_run"
    ELSE "prompt"

\* a bug that approves every non-denied change of a non-interactive run
agent_decision_approve_all(pd, risk, triggered, nonint, auto, dry) ==
    IF pd = "deny" THEN "blocked_by_policy_deny"
    ELSE IF triggered THEN "blocked_by_fail_on_risk"
    ELSE IF nonint THEN "approved_non_interactive"
    ELSE IF auto /\ risk = "low" /\ pd = "allow" THEN "approved_auto_low_risk"
    ELSE IF dry THEN "blocked_dry_run"
    ELSE "prompt"

\* a bug that approves non-interactively only up to medium risk
agent_decision_allow_low_medium(pd, risk, triggered, nonint, auto, dry) ==
    IF pd = "deny" THEN "blocked_by_policy_deny"
    ELSE IF triggered THEN "blocked_by_fail_on_risk"
    ELSE IF nonint THEN
        (IF pd = "allow" /\ risk \in {"low", "medium"} THEN "approved_non_interactive"
         ELSE "blocked_non_interactive_requires_approval")
    ELSE IF auto /\ risk = "low" /\ pd = "allow" THEN "approved_auto_low_risk"
    ELSE IF dry THEN "blocked_dry_run"
    ELSE "prompt"

\* a bug that auto-approves an allowed change at any risk level
agent_decision_auto_any_risk(pd, risk, triggered, nonint, auto, dry) ==
    IF pd = "deny" THEN "blocked_by_policy_deny"
    ELSE IF triggered THEN "blocked_by_fail_on_risk"
    ELSE IF nonint THEN
        (IF pd = "allow" THEN "approved_non_interactive"
         ELSE "blocked_non_interactive_requires_approval")
    ELSE IF auto /\ pd = "allow" THEN "approved_auto_low_risk"
    ELSE IF dry THEN "blocked_dry_run"
    ELSE "prompt"

\* a bug that asks the human in a dry run
agent_decision_prompt_in_dry_run(pd, risk, triggered, nonint, auto, dry) ==
    IF pd = "deny" THEN "blocked_by_policy_deny"
    ELSE IF triggered THEN "blocked_by_fail_on_risk"
    ELSE IF nonint THEN
        (IF pd = "allow" THEN "approved_non_interactive"
         ELSE "blocked_non_interactive_requires_approval")
    ELSE IF auto /\ risk = "low" /\ pd = "allow" THEN "approved_auto_low_risk"
    ELSE "prompt"

\* SafeAgent._preview_and_approve after the governance calls: the terminal
\* outcome, or "prompt" when the human is asked
agent_decision(pd, risk, triggered, nonint, auto, dry) ==
    IF pd = "deny" THEN "blocked_by_policy_deny"
    ELSE IF triggered THEN "blocked_by_fail_on_risk"
    ELSE IF nonint THEN
        (IF pd = "allow" THEN "approved_non_interactive"
         ELSE "blocked_non_interactive_requires_approval")
    ELSE IF auto /\ risk = "low" /\ pd = "allow" THEN "approved_auto_low_risk"
    ELSE IF dry THEN "blocked_dry_run"
    ELSE "prompt"

\* a bug that tests the fail-on-risk threshold before the policy decision
diff_gate_decision_risk_first(pd, risk, threshold) ==
    IF fail_on_risk_triggered(threshold, risk) THEN "blocked_by_fail_on_risk"
    ELSE IF pd = "deny" THEN "blocked_by_policy_deny"
    ELSE IF pd = "allow" THEN "approved_non_interactive"
    ELSE "blocked_non_interactive_requires_approval"

\* DiffGateRunner.run after the governance calls
diff_gate_decision(pd, risk, threshold) ==
    IF pd = "deny" THEN "blocked_by_policy_deny"
    ELSE IF fail_on_risk_triggered(threshold, risk) THEN "blocked_by_fail_on_risk"
    ELSE IF pd = "allow" THEN "approved_non_interactive"
    ELSE "blocked_non_interactive_requires_approval"

\* a bug that executes whatever _preview_and_approve returned
should_execute_always(is_approved, dry) == ~dry

\* a bug that executes approved changes in a dry run
should_execute_in_dry_run(is_approved, dry) == is_approved

\* SafeAgent.run: if approved and not self.dry_run
should_execute(is_approved, dry) == is_approved /\ ~dry

\* SafeAgent._execute_change: TRUE when the filesystem was mutated; io is
\* what the write or unlink did ("applied", or "failed": an exception that
\* is caught, or a file to delete that does not exist)
execute_change(change, fs, io) ==
    /\ resolve_path_safe(change.path, fs).ok
    /\ io = "applied"

IoResults == {"applied", "failed"}

CountOutcome(events, outcome) ==
    Cardinality({k \in 1..Len(events) : events[k].outcome = outcome})

\* a bug that counts every rejected change as a policy violation
finalize_audit_trail_count_rejected(trail, made, rejected, dry, max_risk, events) ==
    [trail EXCEPT
        !.finalized = TRUE,
        !.summary = [total_changes_planned |-> Len(made) + Len(rejected),
                     changes_approved |-> Len(made),
                     changes_rejected |-> Len(rejected),
                     changes_executed |-> IF ~dry THEN Len(made) ELSE 0,
                     max_risk_level_seen |-> max_risk,
                     policy_violations |-> Len(rejected)],
        !.audit_trail_complete = TRUE]

\* a bug that copies the approved changes into the trail's changes list
finalize_audit_trail_record_changes(trail, made, rejected, dry, max_risk, events) ==
    [trail EXCEPT
        !.changes = made,
        !.finalized = TRUE,
        !.summary = [total_changes_planned |-> Len(made) + Len(rejected),
                     changes_approved |-> Len(made),
                     changes_rejected |-> Len(rejected),
                     changes_executed |-> IF ~dry THEN Len(made) ELSE 0,
                     max_risk_level_seen |-> max_risk,
                     policy_violations |-> CountOutcome(events, "blocked_by_policy_deny")],
        !.audit_trail_complete = TRUE]

\* SafeAgent._finalize_audit_trail
finalize_audit_trail(trail, made, rejected, dry, max_risk, events) ==
    [trail EXCEPT
        !.finalized = TRUE,
        !.summary = [total_changes_planned |-> Len(made) + Len(rejected),
                     changes_approved |-> Len(made),
                     changes_rejected |-> Len(rejected),
                     changes_executed |-> IF ~dry THEN Len(made) ELSE 0,
                     max_risk_level_seen |-> max_risk,
                     policy_violations |-> CountOutcome(events, "blocked_by_policy_deny")],
        !.audit_trail_complete = TRUE]

\* a bug that writes the trail whether or not an export path is configured
export_audit_trail_always(export_path, trail, file, io) ==
    IF io = "applied" THEN <<trail>> ELSE file

\* run()'s `if self.audit_export_path: self.export_audit_trail()`: the file
\* at the export path afterwards; io is what open() and json.dump did
\* ("failed": an exception, which export_audit_trail catches)
export_audit_trail(export_path, trail, file, io) ==
    IF export_path = None THEN file
    ELSE IF io = "applied" THEN <<trail>> ELSE file

\* the calls run() makes once the loop is over: _finalize_audit_trail, then
\* export_audit_trail when a path is configured, which writes unless io failed
finish_calls(export_path, io, k) ==
    <<Call("finalize", k)>>
    \o (IF export_path = None THEN <<>> ELSE <<Call("export", k)>>)
    \o (IF export_path # None /\ io = "applied" THEN <<Call("write", k)>> ELSE <<>>)

\* a bug that lets a policy denial pass as success
run_success_risk_only(risk_failed, governance_failed) == ~risk_failed

\* a bug that returns the failure test itself instead of its negation
run_success_inverted(risk_failed, governance_failed) == risk_failed \/ governance_failed

\* run(): success = not (risk_policy_failed or governance_policy_failed)
run_success(risk_failed, governance_failed) == ~(risk_failed \/ governance_failed)

\* SafeAgent: scan_max_str.lower() ("none" without findings)
agent_scanner_severity(scan_result) ==
    IF scan_result.max_severity = None THEN "none" ELSE scan_result.max_severity

\* DiffGateRunner: scan_max_str (None without findings)
diff_scanner_severity(scan_result) == scan_result.max_severity

\* the resolver's answer for every path a plan can name, and the
\* evaluator's for every policy, path and risk level, tabulated once
RunPaths == {c.path : c \in ChangeUniverse}

ResolvedRun == [p \in RunPaths |-> resolve_path_safe(p, RunFs)]

PolicyTable ==
    [src \in PolicySources |-> [comp \in BOOLEAN |-> [p \in RunPaths |->
        [r \in RiskLevels |->
            evaluate(policy_config(src, comp), ResolvedRun[p].path, r)]]]]

InLoop == pc = "loop" /\ idx <= Len(plan)
cur == plan[idx]
\* resolved_path = self._resolve_path_safe(path)
cur_resolved == ResolvedRun[cur.path]
\* the evaluator's result for the request built from the resolved path
cur_policy(risk) ==
    IF policy_source \in PolicySources
    THEN PolicyTable[policy_source][compliance_mode][cur.path][risk]
    ELSE evaluate(policy_config(policy_source, compliance_mode), cur_resolved.path, risk)

(***************************************************************************)
(* SafeAgent.run                                                           *)
(***************************************************************************)
\* run(): _plan_changes returns the plan; an empty plan finalizes the audit
\* trail and returns at once
AgentStartRun ==
    /\ engine = "SafeAgent"
    /\ pc = "ready"
    /\ \E p \in Plans :
        /\ plan' = p
        /\ IF p = <<>>
           THEN /\ audit_trail' = finalize_audit_trail(audit_trail, changes_made,
                                      changes_rejected, dry_run, max_risk_level_seen,
                                      governance_events)
                /\ \E io \in IoResults :
                    /\ audit_file' = export_audit_trail(audit_export_path,
                                          audit_trail', audit_file, io)
                    /\ calls' = calls \o finish_calls(audit_export_path, io, idx)
                /\ result' = [returned |-> TRUE, success |-> TRUE]
                /\ pc' = "done"
                /\ idx' = idx
           ELSE /\ pc' = "loop"
                /\ idx' = 1
                /\ UNCHANGED <<audit_vars, result, calls>>
    /\ UNCHANGED <<config_vars, flag_vars, changes_made, changes_rejected,
                   governance_events, locals, approved>>

\* _preview_and_approve up to the analyzer call: path safety, action mapping
AgentPreview ==
    /\ engine = "SafeAgent"
    /\ InLoop
    /\ calls' = Append(calls, Call("resolve", idx))
    /\ IF ~cur_resolved.ok
       THEN /\ max_risk_level_seen' = note_risk(max_risk_level_seen, "critical")
            /\ risk_policy_failed' =
                   (risk_policy_failed \/ fail_on_risk_triggered(fail_on_risk, "critical"))
            /\ governance_events' =
                   record_governance_event(governance_events, cur.path, cur.action,
                       "critical", None, None, None, {}, "blocked_unsafe_path")
            /\ approved' = FALSE
            /\ pc' = "returned"
       ELSE IF cur.action \notin ValidActions
       THEN /\ governance_events' =
                   record_governance_event(governance_events, cur.path, cur.action,
                       None, None, None, None, {}, "blocked_unknown_action")
            /\ approved' = FALSE
            /\ pc' = "returned"
            /\ max_risk_level_seen' = unknown_action_risk(max_risk_level_seen)
            /\ UNCHANGED risk_policy_failed
       ELSE /\ pc' = "analyze"
            /\ UNCHANGED <<max_risk_level_seen, risk_policy_failed, governance_events,
                           approved>>
    /\ UNCHANGED <<config_vars, governance_policy_failed, governance_policy_reason,
                   changes_made, changes_rejected, audit_vars, plan, idx, locals, result>>

\* _preview_and_approve from the analyzer's answer to the first terminal
\* branch, or to the prompt
AgentAnalyze ==
    /\ engine = "SafeAgent"
    /\ pc = "analyze"
    /\ \E risk \in RiskLevels :
        LET policy_result == cur_policy(risk)
            scan_result == scan(cur.content)
            policy_triggered == fail_on_risk_triggered(fail_on_risk, risk)
            pd == policy_result.decision
            outcome == agent_decision(pd, risk, policy_triggered, non_interactive,
                                      auto_approve_low_risk, dry_run)
        IN  /\ calls' = calls \o <<Call("analyze", idx), Call("evaluate", idx),
                                   Call("scan", idx)>>
            /\ max_risk_level_seen' = note_risk(max_risk_level_seen, risk)
            /\ risk_policy_failed' = (risk_policy_failed \/ policy_triggered)
            /\ governance_policy_failed' = (governance_policy_failed \/ pd = "deny")
            /\ governance_policy_reason' =
                   IF pd = "deny"
                   THEN (IF policy_result.matched_rule_id # None
                         THEN policy_result.matched_rule_id ELSE "policy_denied")
                   ELSE governance_policy_reason
            /\ IF outcome = "prompt"
               THEN /\ locals' = [risk_level |-> risk,
                                  policy_decision |-> pd,
                                  matched_rule_id |-> policy_result.matched_rule_id,
                                  scanner_severity |-> agent_scanner_severity(scan_result),
                                  scanner_reason_ids |-> scan_result.findings]
                    /\ pc' = "prompt"
                    /\ UNCHANGED <<governance_events, approved>>
               ELSE /\ governance_events' =
                           record_governance_event(governance_events, cur.path,
                               cur.action, risk, pd, policy_result.matched_rule_id,
                               agent_scanner_severity(scan_result),
                               scan_result.findings, outcome)
                    /\ approved' = (outcome \in ApprovedOutcomes)
                    /\ pc' = "returned"
                    /\ UNCHANGED locals
    /\ UNCHANGED <<config_vars, changes_made, changes_rejected, audit_vars, plan, idx,
                   result>>

\* Confirm.ask and the event that records the answer
AgentPrompt ==
    /\ engine = "SafeAgent"
    /\ pc = "prompt"
    /\ \E answer \in BOOLEAN :
        /\ calls' = Append(calls, Call("prompt", idx))
        /\ governance_events' =
               record_governance_event(governance_events, cur.path, cur.action,
                   locals.risk_level, locals.policy_decision, locals.matched_rule_id,
                   locals.scanner_severity, locals.scanner_reason_ids,
                   IF answer THEN "approved_interactive" ELSE "rejected_interactive")
        /\ approved' = answer
    /\ locals' = NoLocals
    /\ pc' = "returned"
    /\ UNCHANGED <<config_vars, flag_vars, changes_made, changes_rejected, audit_vars,
                   plan, idx, result>>

\* run(): the loop body after _preview_and_approve returned
AgentApply ==
    /\ engine = "SafeAgent"
    /\ pc = "returned"
    /\ IF should_execute(approved, dry_run)
       THEN /\ \E io \in IoResults :
                calls' = calls \o <<Call("execute", idx)>> \o
                         (IF execute_change(cur, RunFs, io)
                          THEN <<Call("fs", idx)>> ELSE <<>>)
            /\ changes_made' = Append(changes_made, idx)
            /\ UNCHANGED changes_rejected
       ELSE IF ~approved
       THEN /\ changes_rejected' = Append(changes_rejected, idx)
            /\ UNCHANGED <<changes_made, calls>>
       ELSE UNCHANGED <<changes_made, changes_rejected, calls>>
    /\ idx' = idx + 1
    /\ pc' = "loop"
    /\ approved' = FALSE
    /\ UNCHANGED <<config_vars, flag_vars, governance_events, audit_vars, plan, locals,
                   result>>

\* run() after the loop: summary, audit trail, returned dict
AgentFinish ==
    /\ engine = "SafeAgent"
    /\ pc = "loop"
    /\ idx > Len(plan)
    /\ audit_trail' = finalize_audit_trail(audit_trail, changes_made, changes_rejected,
                          dry_run, max_risk_level_seen, governance_events)
    /\ \E io \in IoResults :
        /\ audit_file' = export_audit_trail(audit_export_path, audit_trail',
                              audit_file, io)
        /\ calls' = calls \o finish_calls(audit_export_path, io, idx)
    /\ result' = [returned |-> TRUE,
                  success |-> run_success(risk_policy_failed, governance_policy_failed)]
    /\ pc' = "done"
    /\ UNCHANGED <<config_vars, flag_vars, changes_made, changes_rejected,
                   governance_events, plan, idx, locals, approved>>

(***************************************************************************)
(* DiffGateRunner.run                                                      *)
(***************************************************************************)
\* run(): _collect_diff_changes returns the changes; none returns at once
DiffStartRun ==
    /\ engine = "DiffGateRunner"
    /\ pc = "ready"
    /\ \E p \in Plans :
        /\ plan' = p
        /\ IF p = <<>>
           THEN /\ result' = [returned |-> TRUE, success |-> TRUE]
                /\ pc' = "done"
                /\ idx' = idx
           ELSE /\ pc' = "loop"
                /\ idx' = 1
                /\ UNCHANGED result
    /\ UNCHANGED <<config_vars, flag_vars, changes_made, changes_rejected,
                   governance_events, audit_vars, locals, approved, calls>>

\* the loop body up to the analyzer call
DiffCheck ==
    /\ engine = "DiffGateRunner"
    /\ InLoop
    /\ calls' = Append(calls, Call("resolve", idx))
    /\ IF ~cur_resolved.ok
       THEN /\ max_risk_level_seen' = note_risk(max_risk_level_seen, "critical")
            /\ risk_policy_failed' =
                   (risk_policy_failed \/ fail_on_risk_triggered(fail_on_risk, "critical"))
            /\ changes_rejected' = Append(changes_rejected, idx)
            /\ governance_events' =
                   record_governance_event(governance_events, cur.path, cur.action,
                       "critical", None, None, None, {}, "blocked_unsafe_path")
            /\ idx' = idx + 1
            /\ pc' = "loop"
       ELSE IF cur.action \notin ValidActions
       THEN /\ changes_rejected' = Append(changes_rejected, idx)
            /\ governance_events' =
                   record_governance_event(governance_events, cur.path, cur.action,
                       None, None, None, None, {}, "blocked_unknown_action")
            /\ idx' = idx + 1
            /\ pc' = "loop"
            /\ max_risk_level_seen' = unknown_action_risk(max_risk_level_seen)
            /\ UNCHANGED risk_policy_failed
       ELSE /\ pc' = "analyze"
            /\ UNCHANGED <<max_risk_level_seen, risk_policy_failed, changes_rejected,
                           governance_events, idx>>
    /\ UNCHANGED <<config_vars, governance_policy_failed, governance_policy_reason,
                   changes_made, audit_vars, plan, locals, approved, result>>

\* the loop body from the analyzer's answer to the end of the iteration
DiffAnalyze ==
    /\ engine = "DiffGateRunner"
    /\ pc = "analyze"
    /\ \E risk \in RiskLevels :
        LET policy_result == cur_policy(risk)
            scan_result == scan(cur.content)
            pd == policy_result.decision
            outcome == diff_gate_decision(pd, risk, fail_on_risk)
        IN  /\ calls' = calls \o <<Call("analyze", idx), Call("evaluate", idx),
                                   Call("scan", idx)>>
            /\ max_risk_level_seen' = note_risk(max_risk_level_seen, risk)
            /\ governance_policy_failed' = (governance_policy_failed \/ pd = "deny")
            /\ governance_policy_reason' =
                   IF pd = "deny"
                   THEN (IF policy_result.matched_rule_id # None
                         THEN policy_result.matched_rule_id ELSE "policy_denied")
                   ELSE governance_policy_reason
            /\ risk_policy_failed' =
                   (risk_policy_failed \/ outcome = "blocked_by_fail_on_risk")
            /\ IF outcome = "approved_non_interactive"
               THEN /\ changes_made' = Append(changes_made, idx)
                    /\ UNCHANGED changes_rejected
               ELSE /\ changes_rejected' = Append(changes_rejected, idx)
                    /\ UNCHANGED changes_made
            /\ governance_events' =
                   record_governance_event(governance_events, cur.path, cur.action,
                       risk, pd, policy_result.matched_rule_id,
                       diff_scanner_severity(scan_result), scan_result.findings, outcome)
    /\ idx' = idx + 1
    /\ pc' = "loop"
    /\ UNCHANGED <<config_vars, audit_vars, plan, locals, approved, result>>

\* run() after the loop: the returned dict
DiffFinish ==
    /\ engine = "DiffGateRunner"
    /\ pc = "loop"
    /\ idx > Len(plan)
    /\ result' = [returned |-> TRUE,
                  success |-> run_success(risk_policy_failed, governance_policy_failed)]
    /\ pc' = "done"
    /\ UNCHANGED <<config_vars, flag_vars, changes_made, changes_rejected,
                   governance_events, audit_vars, plan, idx, locals, approved, calls>>

Next ==
    \/ AgentStartRun
    \/ AgentPreview
    \/ AgentAnalyze
    \/ AgentPrompt
    \/ AgentApply
    \/ AgentFinish
    \/ DiffStartRun
    \/ DiffCheck
    \/ DiffAnalyze
    \/ DiffFinish

Spec == Init /\ [][Next]_vars

(***************************************************************************)
(* SpecPath: the resolver applied to every raw path of the alphabet, on    *)
(* every filesystem state of FsStates.                                     *)
(***************************************************************************)
RawPaths == UNION { [1..n -> PathAlphabet] : n \in 0..MaxPathLen }

InitPath ==
    /\ engine = "SafeAgent"
    /\ compliance_mode = FALSE
    /\ fail_on_risk = None
    /\ policy_source = "builtin"
    /\ requested_auto_approve = FALSE
    /\ dry_run = FALSE
    /\ non_interactive = TRUE
    /\ auto_approve_low_risk = FALSE
    /\ changes_made = <<>>
    /\ changes_rejected = <<>>
    /\ max_risk_level_seen = None
    /\ risk_policy_failed = FALSE
    /\ governance_policy_failed = FALSE
    /\ governance_policy_reason = None
    /\ governance_events = <<>>
    /\ audit_trail = [changes |-> <<>>, finalized |-> FALSE, summary |-> NoSummary,
                      audit_trail_complete |-> FALSE]
    /\ audit_export_path = None
    /\ audit_file = <<>>
    /\ plan = <<>>
    /\ idx = 0
    /\ pc = "path"
    /\ locals = NoLocals
    /\ approved = FALSE
    /\ result = NoResult
    /\ calls = <<>>
    /\ path_in \in RawPaths
    /\ fs_in \in FsStates
    /\ path_out = NoPath
    /\ SideIdle

\* one call of _resolve_path_safe(path_in) on the filesystem fs_in
ResolveCall ==
    /\ pc = "path"
    /\ path_out' = resolve_path_safe(path_in, fs_in)
    /\ pc' = "path_done"
    /\ UNCHANGED <<engine, requested_auto_approve, auto_approve_low_risk, dry_run,
                   non_interactive, fail_on_risk, compliance_mode, policy_source,
                   audit_export_path, flag_vars, changes_made, changes_rejected, governance_events,
                   audit_vars, plan, idx, locals, approved, result, calls, path_in,
                   fs_in, side_vars>>

NextPath == ResolveCall

SpecPath == InitPath /\ [][NextPath]_vars

(***************************************************************************)
(* SpecAudit: the runs of a SafeAgent with the builtin policy, constructed *)
(* with or without an audit export path.                                   *)
(***************************************************************************)
ExportPaths == {None, "audit.json"}

InitAudit ==
    /\ engine = "SafeAgent"
    /\ compliance_mode \in BOOLEAN
    /\ fail_on_risk \in RiskLevels \cup {None}
    /\ policy_source = "builtin"
    /\ requested_auto_approve = FALSE
    /\ dry_run \in BOOLEAN
    /\ non_interactive \in BOOLEAN
    /\ auto_approve_low_risk = init_auto_approve(requested_auto_approve, compliance_mode)
    /\ changes_made = <<>>
    /\ changes_rejected = <<>>
    /\ max_risk_level_seen = None
    /\ risk_policy_failed = FALSE
    /\ governance_policy_failed = FALSE
    /\ governance_policy_reason = None
    /\ governance_events = <<>>
    /\ audit_trail = [changes |-> <<>>, finalized |-> FALSE, summary |-> NoSummary,
                      audit_trail_complete |-> FALSE]
    /\ audit_export_path \in ExportPaths
    /\ audit_file = <<>>
    /\ plan = <<>>
    /\ idx = 0
    /\ pc = "ready"
    /\ locals = NoLocals
    /\ approved = FALSE
    /\ result = NoResult
    /\ calls = <<>>
    /\ path_in = <<>>
    /\ fs_in = {}
    /\ path_out = NoPath
    /\ SideIdle

NextAudit ==
    \/ AgentStartRun
    \/ AgentPreview
    \/ AgentAnalyze
    \/ AgentPrompt
    \/ AgentApply
    \/ AgentFinish

SpecAudit == InitAudit /\ [][NextAudit]_vars

(***************************************************************************)
(* REPORTS.  The builders are functions of the runner's event log and      *)
(* flags; SpecReport applies them to every log of at most MaxChanges       *)
(* events drawn from ReportEvents, under every flag state.                 *)
(***************************************************************************)
\* the settings of a runner constructed with default arguments
DefaultSettings ==
    /\ requested_auto_approve = FALSE
    /\ auto_approve_low_risk = FALSE
    /\ dry_run = FALSE
    /\ non_interactive = TRUE
    /\ compliance_mode = FALSE
    /\ policy_source = "builtin"
    /\ audit_export_path = None

\* the runner's lists, flags and event log right after construction
FreshTracking ==
    /\ changes_made = <<>>
    /\ changes_rejected = <<>>
    /\ max_risk_level_seen = None
    /\ risk_policy_failed = FALSE
    /\ governance_policy_failed = FALSE
    /\ governance_policy_reason = None
    /\ governance_events = <<>>

\* no run has started
NotStarted ==
    /\ audit_trail = [changes |-> <<>>, finalized |-> FALSE, summary |-> NoSummary,
                      audit_trail_complete |-> FALSE]
    /\ audit_file = <<>>
    /\ plan = <<>>
    /\ idx = 0
    /\ locals = NoLocals
    /\ approved = FALSE
    /\ result = NoResult
    /\ calls = <<>>

\* the resolver of SpecPath is not exercised
PathIdle ==
    /\ path_in = <<>>
    /\ fs_in = {}
    /\ path_out = NoPath

Event(risk, pd, rule, reasons, outcome) ==
    [path |-> PlainPath, action |-> "modify", risk_level |-> risk,
     policy_decision |-> pd, matched_rule_id |-> rule,
     scanner_severity |-> IF reasons = {} THEN None ELSE "high",
     scanner_reason_ids |-> reasons, outcome |-> outcome]

ReportEvents ==
    { Event("high", "deny", "file:deny-secrets", {"prompt_injection"},
            "blocked_by_policy_deny"),
      Event("high", "deny", None, {}, "blocked_by_policy_deny"),
      Event("high", "require_approval", None, {},
            "blocked_non_interactive_requires_approval"),
      Event("critical", "allow", "file:allow-all", {}, "blocked_by_fail_on_risk"),
      Event("low", "allow", "file:allow-all", {}, "approved_non_interactive"),
      Event("low", "allow", "file:allow-all", {"prompt_injection"},
            "approved_non_interactive") }

EventLogs == UNION { [1..n -> ReportEvents] : n \in 0..MaxChanges }

\* sorted({event["matched_rule_id"] ...}) of the denied events with a rule id
blocking_rule_ids(events) ==
    { events[k].matched_rule_id :
        k \in { j \in 1..Len(events) :
                  /\ events[j].outcome = "blocked_by_policy_deny"
                  /\ events[j].matched_rule_id # None } }

\* sorted({reason for event ... for reason in event["scanner_reason_ids"]})
scanner_reason_ids(events) ==
    UNION { events[k].scanner_reason_ids : k \in 1..Len(events) }

has_outcome(events, outcome) == \E k \in 1..Len(events) : events[k].outcome = outcome

\* one line of recommended_next_actions: which advice, and what it names
Advice(kind, detail) == [kind |-> kind, detail |-> detail]

\* a bug that lists the scanner advice before the interactive re-run advice
recommended_next_actions_scanner_first(events, risk_failed, threshold) ==
    LET actions ==
            (IF blocking_rule_ids(events) # {}
             THEN <<Advice("review_blocking_rules", blocking_rule_ids(events))>> ELSE <<>>)
            \o (IF risk_failed /\ threshold # None
                THEN <<Advice("adjust_fail_on_risk", {threshold})>> ELSE <<>>)
            \o (IF scanner_reason_ids(events) # {}
                THEN <<Advice("investigate_scanner", scanner_reason_ids(events))>> ELSE <<>>)
            \o (IF has_outcome(events, "blocked_non_interactive_requires_approval")
                THEN <<Advice("rerun_interactive", {})>> ELSE <<>>)
    IN  IF actions = <<>> THEN <<Advice("no_blocking_findings", {})>> ELSE actions

\* SafeAgent._recommended_next_actions / DiffGateRunner._recommended_next_actions
recommended_next_actions(events, risk_failed, threshold) ==
    LET actions ==
            (IF blocking_rule_ids(events) # {}
             THEN <<Advice("review_blocking_rules", blocking_rule_ids(events))>> ELSE <<>>)
            \o (IF risk_failed /\ threshold # None
                THEN <<Advice("adjust_fail_on_risk", {threshold})>> ELSE <<>>)
            \o (IF has_outcome(events, "blocked_non_interactive_requires_approval")
                THEN <<Advice("rerun_interactive", {})>> ELSE <<>>)
            \o (IF scanner_reason_ids(events) # {}
                THEN <<Advice("investigate_scanner", scanner_reason_ids(events))>> ELSE <<>>)
    IN  IF actions = <<>> THEN <<Advice("no_blocking_findings", {})>> ELSE actions

\* a bug that tests the policy flags before the approval-required outcome
run_status_blocked_first(events, risk_failed, governance_failed, success) ==
    IF risk_failed \/ governance_failed THEN "blocked"
    ELSE IF has_outcome(events, "blocked_non_interactive_requires_approval")
    THEN "requires_approval"
    ELSE IF success THEN "passed"
    ELSE "failed"

\* build_machine_report: run_status
run_status(events, risk_failed, governance_failed, success) ==
    IF has_outcome(events, "blocked_non_interactive_requires_approval")
    THEN "requires_approval"
    ELSE IF risk_failed \/ governance_failed THEN "blocked"
    ELSE IF success THEN "passed"
    ELSE "failed"

\* build_machine_report(run_success=success), with the fields of its
\* policy_report that the checks read
build_machine_report(events, risk_failed, governance_failed, threshold, success) ==
    [built |-> TRUE,
     run_status |-> run_status(events, risk_failed, governance_failed, success),
     success |-> success,
     planned_changes |-> Len(events),
     status |-> IF risk_failed \/ governance_failed THEN "failed" ELSE "passed",
     blocking_rule_ids |-> blocking_rule_ids(events),
     recommended_next_actions |-> recommended_next_actions(events, risk_failed, threshold)]

InitReport ==
    /\ engine \in Engines
    /\ DefaultSettings
    /\ fail_on_risk \in RiskLevels \cup {None}
    /\ changes_made = <<>>
    /\ changes_rejected = <<>>
    /\ max_risk_level_seen = None
    /\ risk_policy_failed \in BOOLEAN
    /\ governance_policy_failed \in BOOLEAN
    /\ governance_policy_reason = None
    /\ governance_events \in EventLogs
    /\ NotStarted
    /\ PathIdle
    /\ pc = "report"
    /\ SideIdle

\* runner.build_machine_report(run_success=...) called by an adapter
BuildReport ==
    /\ pc = "report"
    /\ \E success \in BOOLEAN :
        report' = build_machine_report(governance_events, risk_policy_failed,
                      governance_policy_failed, fail_on_risk, success)
    /\ pc' = "reported"
    /\ UNCHANGED <<engine, requested_auto_approve, auto_approve_low_risk, dry_run,
                   non_interactive, fail_on_risk, compliance_mode, policy_source,
                   audit_export_path, path_vars, collect_vars, arg_vars, construct,
                   cli_vars, run_no, flag_vars, changes_made,
                   changes_rejected, governance_events, audit_vars, plan, idx, locals,
                   approved, result, calls>>

NextReport == BuildReport

SpecReport == InitReport /\ [][NextReport]_vars

(***************************************************************************)
(* THE DIFF COLLECTOR.  SpecCollect applies _collect_diff_changes to every *)
(* git output of at most MaxChanges status lines and MaxChanges untracked  *)
(* paths, with and without a base ref, any git command failing.            *)
(***************************************************************************)
\* a truthy diff_ref: not None and not the empty string
has_diff_ref(ref) == ref # <<>> /\ ref[1] # <<>>

\* one line of --name-status output, split at tabs: parts[0][0], parts[1:]
StatusLine(code, paths) == [code |-> code, paths |-> paths]

SpacedPath == <<" ", "a">>
BlankPath == <<" ">>

\* --diff-filter=ACDMR prints added, copied, deleted, modified and renamed
StatusLines ==
    { StatusLine("A", <<PlainPath>>), StatusLine("M", <<SecretPath>>),
      StatusLine("M", <<SpacedPath>>), StatusLine("D", <<PlainPath>>),
      StatusLine("R", <<PlainPath, SecretPath>>),
      StatusLine("R", <<SecretPath, SpacedPath>>),
      StatusLine("C", <<PlainPath, SecretPath>>) }

GitStatusOutputs == UNION { [1..n -> StatusLines] : n \in 0..MaxChanges }

UntrackedPaths == {PlainPath, SecretPath, SpacedPath, BlankPath}

\* git lists every untracked file once
GitUntrackedOutputs ==
    { u \in UNION { [1..n -> UntrackedPaths] : n \in 0..MaxChanges } :
        \A i, j \in 1..Len(u) : u[i] = u[j] => i = j }

DiffChange(action, path, description) ==
    [action |-> action, path |-> path, description |-> description]

\* a bug that emits the create of a rename before its delete
line_changes_create_first(line) ==
    IF line.code = "A" THEN <<DiffChange("create", line.paths[1], "create")>>
    ELSE IF line.code = "M" THEN <<DiffChange("modify", line.paths[1], "modify")>>
    ELSE IF line.code = "D" THEN <<DiffChange("delete", line.paths[1], "delete")>>
    ELSE IF line.code = "R" /\ Len(line.paths) >= 2
    THEN <<DiffChange("create", line.paths[2], "rename-create"),
           DiffChange("delete", line.paths[1], "rename-delete")>>
    ELSE <<>>

\* the body of the for loop over raw.splitlines()
line_changes(line) ==
    IF line.code = "A" THEN <<DiffChange("create", line.paths[1], "create")>>
    ELSE IF line.code = "M" THEN <<DiffChange("modify", line.paths[1], "modify")>>
    ELSE IF line.code = "D" THEN <<DiffChange("delete", line.paths[1], "delete")>>
    ELSE IF line.code = "R" /\ Len(line.paths) >= 2
    THEN <<DiffChange("delete", line.paths[1], "rename-delete"),
           DiffChange("create", line.paths[2], "rename-create")>>
    ELSE <<>>

RECURSIVE status_changes(_)
status_changes(lines) ==
    IF lines = <<>> THEN <<>>
    ELSE line_changes(Head(lines)) \o status_changes(Tail(lines))

\* the loop over the stripped, non-empty lines of ls-files --others
RECURSIVE untracked_changes(_, _)
untracked_changes(lines, tracked_paths) ==
    IF lines = <<>> THEN <<>>
    ELSE LET path == strip(Head(lines))
         IN  (IF path = <<>> \/ path \in tracked_paths THEN <<>>
              ELSE <<DiffChange("create", path, "create")>>)
             \o untracked_changes(Tail(lines), tracked_paths)

\* _collect_diff_changes, given what the git commands print
collect_diff_changes(ref, status, untracked) ==
    LET changes == status_changes(status)
        tracked_paths == {changes[k].path : k \in 1..Len(changes)}
    IN  IF has_diff_ref(ref) THEN changes
        ELSE changes \o untracked_changes(untracked, tracked_paths)

\* the git commands _collect_diff_changes runs, in order
git_commands(ref) ==
    IF has_diff_ref(ref)
    THEN <<"git rev-parse --is-inside-work-tree", "git rev-parse --verify", "git diff">>
    ELSE <<"git rev-parse --is-inside-work-tree", "git diff", "git ls-files --others">>

DiffRefs == { <<>>, << <<>> >>, << <<"a">> >> }

InitCollect ==
    /\ engine = "DiffGateRunner"
    /\ DefaultSettings
    /\ fail_on_risk = None
    /\ FreshTracking
    /\ NotStarted
    /\ PathIdle
    /\ pc = "collect"
    /\ report = NoReport
    /\ diff_ref \in DiffRefs
    /\ git_status \in GitStatusOutputs
    /\ git_untracked \in GitUntrackedOutputs
    /\ collected = NoCollected
    /\ diff_ref_arg = <<>>
    /\ policy_path = <<>>
    /\ policy_preset = <<>>
    /\ construct = Constructed(NoPath)
    /\ CliIdle
    /\ run_no = 1

\* _collect_diff_changes(): _run_git raises RuntimeError at the first
\* command that exits non-zero (failing = 0: none does)
CollectDiffChanges ==
    /\ pc = "collect"
    /\ \E failing \in 0..3 :
        LET cmds == git_commands(diff_ref)
        IN  IF failing = 0
            THEN /\ calls' = [k \in 1..Len(cmds) |-> Call(cmds[k], 0)]
                 /\ collected' = [returned |-> TRUE, error |-> FALSE,
                                  changes |-> collect_diff_changes(diff_ref, git_status,
                                                                   git_untracked)]
            ELSE /\ calls' = [k \in 1..failing |-> Call(cmds[k], 0)]
                 /\ collected' = [returned |-> TRUE, error |-> TRUE, changes |-> <<>>]
    /\ pc' = "collected"
    /\ UNCHANGED <<engine, requested_auto_approve, auto_approve_low_risk, dry_run,
                   non_interactive, fail_on_risk, compliance_mode, policy_source,
                   audit_export_path, path_vars, report, diff_ref, git_status,
                   git_untracked, arg_vars, construct, cli_vars, run_no, flag_vars,
                   changes_made, changes_rejected,
                   governance_events, audit_vars, plan, idx, locals, approved, result>>

NextCollect == CollectDiffChanges

SpecCollect == InitCollect /\ [][NextCollect]_vars

(***************************************************************************)
(* CONSTRUCTION.  SpecDiffRef constructs a DiffGateRunner with every       *)
(* diff_ref of at most MaxRefLen characters and runs it; SpecPolicy        *)
(* constructs either runner with the policy arguments of PolicyPathArgs    *)
(* and PresetArgs on every filesystem of FsStates and runs it.             *)
(***************************************************************************)
MaxRefLen == 3

\* one representative per class _validate_diff_ref distinguishes
RefAlphabet == {"a", "-", " ", NUL}

DiffRefArgs == {<<>>} \cup { <<r>> : r \in UNION { [1..n -> RefAlphabet] : n \in 0..MaxRefLen } }

\* Python truthiness of an optional string: not None and not ""
truthy(arg) == arg # <<>> /\ arg[1] # <<>>

\* DiffGateRunner._validate_diff_ref: the stripped ref, or ValueError
validate_diff_ref(raw_ref) ==
    LET ref == strip(raw_ref)
    IN  IF ref = <<>> THEN NoPath
        ELSE IF startswith(ref, <<"-">>) THEN NoPath
        ELSE IF contains(ref, NUL) THEN NoPath
        ELSE IF \E c \in Whitespace : contains(ref, c) THEN NoPath
        ELSE SomePath(ref)

\* __init__: a truthy diff_ref is validated, any other is kept as given
init_diff_ref(arg) ==
    IF truthy(arg)
    THEN LET v == validate_diff_ref(arg[1])
         IN  [ok |-> v.ok, ref |-> IF v.ok THEN <<v.path>> ELSE <<>>]
    ELSE [ok |-> TRUE, ref |-> arg]

\* the policy files tried: relative and absolute, inside and outside the root
PolicyPathArgs ==
    { <<>>, << <<>> >>, << <<"a">> >>, << <<" ", "a">> >>,
      << <<".", ".", "/", "a">> >>, << <<"a", "/", ".", ".", "/", ".", ".">> >>,
      << <<"/", "a">> >>, << <<"/", "w", "/", "a">> >>,
      << <<"/", "w", "/", ".", ".", "/", "a">> >>, << <<"~", "/", "a">> >> }

PresetArgs == { <<>>, << <<>> >>, << <<"s">> >> }

\* a bug that skips the containment test of an absolute policy_path
policy_file_absolute_unchecked(path_arg, fs) ==
    LET raw == strip(path_arg[1])
    IN  IF is_absolute(raw)
        THEN SomePath(resolve(<<>>, parts(raw), fs))
        ELSE resolve_path_safe(raw, fs)

\* _init_governance / _build_policy_config: the file a truthy policy_path
\* names, or ValueError
policy_file(path_arg, fs) ==
    LET raw == strip(path_arg[1])
    IN  IF is_absolute(raw)
        THEN LET resolved == resolve(<<>>, parts(raw), fs)
             IN  IF relative_to(resolved, WorkingRoot) THEN SomePath(resolved) ELSE NoPath
        ELSE resolve_path_safe(raw, fs)

\* SafeAgent._init_governance / DiffGateRunner._build_policy_config;
\* load_ok: whether load_policy_from_file / load_policy_preset returns
init_governance(path_arg, preset_arg, fs, load_ok) ==
    IF truthy(path_arg) /\ truthy(preset_arg)
    THEN [error |-> "ValueError", loaded |-> NoPath, source |-> None]
    ELSE IF truthy(path_arg)
    THEN LET file == policy_file(path_arg, fs)
         IN  IF ~file.ok THEN [error |-> "ValueError", loaded |-> NoPath, source |-> None]
             ELSE IF ~load_ok THEN [error |-> "LoadError", loaded |-> file, source |-> None]
             ELSE [error |-> None, loaded |-> file, source |-> "file"]
    ELSE IF truthy(preset_arg)
    THEN IF ~load_ok THEN [error |-> "LoadError", loaded |-> NoPath, source |-> None]
         ELSE [error |-> None, loaded |-> NoPath, source |-> "preset"]
    ELSE [error |-> None, loaded |-> NoPath, source |-> "builtin"]

NotConstructed == [done |-> FALSE, error |-> None, loaded |-> NoPath]

InitConstruct ==
    /\ requested_auto_approve = FALSE
    /\ auto_approve_low_risk = FALSE
    /\ dry_run = FALSE
    /\ fail_on_risk = None
    /\ compliance_mode = FALSE
    /\ policy_source = "builtin"
    /\ audit_export_path = None
    /\ FreshTracking
    /\ NotStarted
    /\ pc = "construct"
    /\ report = NoReport
    /\ diff_ref = <<>>
    /\ git_status = <<>>
    /\ git_untracked = <<>>
    /\ collected = NoCollected
    /\ construct = NotConstructed
    /\ CliIdle
    /\ run_no = 1

InitDiffRef ==
    /\ InitConstruct
    /\ engine = "DiffGateRunner"
    /\ non_interactive = TRUE
    /\ diff_ref_arg \in DiffRefArgs
    /\ policy_path = <<>>
    /\ policy_preset = <<>>
    /\ PathIdle

InitPolicy ==
    /\ InitConstruct
    /\ engine \in Engines
    /\ non_interactive \in BOOLEAN
    /\ diff_ref_arg = <<>>
    /\ policy_path \in PolicyPathArgs
    /\ policy_preset \in PresetArgs
    /\ path_in = <<>>
    /\ fs_in \in FsStates
    /\ path_out = NoPath

\* SafeAgent.__init__ / DiffGateRunner.__init__: the diff_ref check comes
\* first, then the policy configuration; an exception leaves no runner
Construct ==
    /\ pc = "construct"
    /\ \E load_ok \in BOOLEAN :
        LET ref == IF engine = "DiffGateRunner" THEN init_diff_ref(diff_ref_arg)
                   ELSE [ok |-> TRUE, ref |-> <<>>]
            gov == init_governance(policy_path, policy_preset, fs_in, load_ok)
        IN  IF ~ref.ok
            THEN /\ construct' = [done |-> TRUE, error |-> "ValueError", loaded |-> NoPath]
                 /\ pc' = "config_error"
                 /\ UNCHANGED <<diff_ref, policy_source, calls>>
            ELSE /\ diff_ref' = ref.ref
                 /\ construct' = [done |-> TRUE, error |-> gov.error, loaded |-> gov.loaded]
                 /\ calls' = IF gov.loaded.ok THEN <<Call("load_policy_from_file", 0)>>
                             ELSE calls
                 /\ IF gov.error = None
                    THEN /\ policy_source' = gov.source
                         /\ pc' = "ready"
                    ELSE /\ pc' = "config_error"
                         /\ UNCHANGED policy_source
    /\ UNCHANGED <<engine, requested_auto_approve, auto_approve_low_risk, dry_run,
                   non_interactive, fail_on_risk, compliance_mode, audit_export_path,
                   path_vars, report, git_status, git_untracked, collected, arg_vars,
                   cli_vars, run_no, flag_vars, changes_made, changes_rejected, governance_events,
                   audit_vars, plan, idx, locals, approved, result>>

NextDiffRef == Construct \/ DiffStartRun \/ DiffCheck \/ DiffAnalyze \/ DiffFinish

SpecDiffRef == InitDiffRef /\ [][NextDiffRef]_vars

NextPolicy == Construct \/ Next

SpecPolicy == InitPolicy /\ [][NextPolicy]_vars

(***************************************************************************)
(* THE COMMAND LINE.  SpecCli is main() from the constructed runner on:    *)
(* the run, which its first collaborator call may end with an exception,   *)
(* then the artifacts and the exit code.                                   *)
(***************************************************************************)
\* what the first collaborator call of run() can raise: _run_git raises
\* RuntimeError on a non-zero exit and subprocess.run OSError when git is
\* missing; the planner's API client raises its own APIError; Ctrl-C
\* raises KeyboardInterrupt in either
RunErrors(e) ==
    IF e = "DiffGateRunner" THEN {"RuntimeError", "OSError", "KeyboardInterrupt"}
    ELSE {"APIError", "KeyboardInterrupt"}

Artifact(kind, status) == [kind |-> kind, run_status |-> status]

InitCli ==
    /\ engine \in Engines
    /\ requested_auto_approve = FALSE
    /\ auto_approve_low_risk = FALSE
    /\ dry_run = FALSE
    /\ non_interactive \in BOOLEAN
    /\ fail_on_risk = None
    /\ compliance_mode = FALSE
    /\ policy_source = "builtin"
    /\ audit_export_path = None
    /\ FreshTracking
    /\ NotStarted
    /\ PathIdle
    /\ pc = "ready"
    /\ report = NoReport
    /\ diff_ref = <<>>
    /\ git_status = <<>>
    /\ git_untracked = <<>>
    /\ collected = NoCollected
    /\ diff_ref_arg = <<>>
    /\ policy_path = <<>>
    /\ policy_preset = <<>>
    /\ construct = Constructed(NoPath)
    /\ json_out \in BOOLEAN
    /\ policy_report \in BOOLEAN
    /\ raised = None
    /\ artifacts = <<>>
    /\ exit_code = <<>>
    /\ run_no = 1

\* runner.run() raises out of its first collaborator call
RunRaises ==
    /\ pc = "ready"
    /\ raised' \in RunErrors(engine)
    /\ pc' = "raised"
    /\ UNCHANGED <<engine, requested_auto_approve, auto_approve_low_risk, dry_run,
                   non_interactive, fail_on_risk, compliance_mode, policy_source,
                   audit_export_path, path_vars, report, collect_vars, arg_vars,
                   construct, json_out, policy_report, artifacts, exit_code, run_no,
                   flag_vars,
                   changes_made, changes_rejected, governance_events, audit_vars, plan,
                   idx, locals, approved, result, calls>>

\* main() after run() returned: the policy report, the machine report, then
\* exit 2 unless the run succeeded; a write that fails raises OSError,
\* which main() does not catch
cli_after_run(success, want_policy, want_json, io_policy, io_json, status) ==
    IF want_policy /\ io_policy = "failed" THEN [written |-> <<>>, code |-> 1]
    ELSE LET first == IF want_policy THEN <<Artifact("policy_report", None)>> ELSE <<>>
         IN  IF want_json /\ io_json = "failed" THEN [written |-> first, code |-> 1]
             ELSE [written |-> first \o (IF want_json
                                         THEN <<Artifact("machine_report", status)>>
                                         ELSE <<>>),
                   code |-> IF success THEN 0 ELSE 2]

\* main()'s except clauses: RuntimeError and KeyboardInterrupt get an
\* error-shaped report; any other exception leaves main() uncaught
cli_after_raise(error, want_json, io_json) ==
    IF error \in {"RuntimeError", "KeyboardInterrupt"} /\ want_json /\ io_json = "applied"
    THEN [written |-> <<Artifact("machine_report",
                                 IF error = "RuntimeError" THEN "error" ELSE "interrupted")>>,
          code |-> 1]
    ELSE [written |-> <<>>, code |-> 1]

\* main() from the return (or the exception) of run() to the exit
CliExit ==
    /\ pc \in {"done", "raised"}
    /\ exit_code = <<>>
    /\ \E io_policy, io_json \in IoResults :
        LET out == IF pc = "done"
                   THEN cli_after_run(result.success, policy_report, json_out, io_policy,
                            io_json,
                            run_status(governance_events, risk_policy_failed,
                                       governance_policy_failed, result.success))
                   ELSE cli_after_raise(raised, json_out, io_json)
        IN  /\ artifacts' = artifacts \o out.written
            /\ exit_code' = <<out.code>>
    /\ pc' = "exited"
    /\ UNCHANGED <<engine, requested_auto_approve, auto_approve_low_risk, dry_run,
                   non_interactive, fail_on_risk, compliance_mode, policy_source,
                   audit_export_path, path_vars, report, collect_vars, arg_vars,
                   construct, json_out, policy_report, raised, run_no, flag_vars, changes_made,
                   changes_rejected, governance_events, audit_vars, plan, idx, locals,
                   approved, result, calls>>

NextCli == RunRaises \/ Next \/ CliExit

SpecCli == InitCli /\ [][NextCli]_vars

(***************************************************************************)
(* RE-RUNS.  SpecRerun invokes run() again on a SafeAgent whose earlier    *)
(* run returned having recorded at most MaxCarried events.                 *)
(***************************************************************************)
MaxRuns == 2
MaxCarried == 1

InitRerun ==
    /\ engine = "SafeAgent"
    /\ requested_auto_approve = FALSE
    /\ auto_approve_low_risk = FALSE
    /\ dry_run = FALSE
    /\ non_interactive = TRUE
    /\ fail_on_risk \in {None, "high"}
    /\ compliance_mode = FALSE
    /\ policy_source = "builtin"
    /\ audit_export_path = None
    /\ FreshTracking
    /\ NotStarted
    /\ PathIdle
    /\ pc = "ready"
    /\ SideIdle

\* agent.run(task) is called again after it returned: run() starts with
\* fresh locals and assigns none of the attributes __init__ set
Rerun ==
    /\ pc = "done"
    /\ run_no < MaxRuns
    /\ Len(governance_events) <= MaxCarried
    /\ run_no' = run_no + 1
    /\ pc' = "ready"
    /\ plan' = <<>>
    /\ idx' = 0
    /\ locals' = NoLocals
    /\ approved' = FALSE
    /\ result' = NoResult
    /\ UNCHANGED <<engine, requested_auto_approve, auto_approve_low_risk, dry_run,
                   non_interactive, fail_on_risk, compliance_mode, policy_source,
                   audit_export_path, path_vars, report, collect_vars, arg_vars,
                   construct, cli_vars, flag_vars, changes_made, changes_rejected,
                   governance_events, audit_vars, calls>>

NextRerun ==
    \/ AgentStartRun \/ AgentPreview \/ AgentAnalyze \/ AgentApply \/ AgentFinish
    \/ Rerun

SpecRerun == InitRerun /\ [][NextRerun]_vars

(***************************************************************************)
(* PROPERTIES.                                                             *)
(***************************************************************************)
Range(seq) == {seq[k] : k \in 1..Len(seq)}

\* indexes of the changes for which a collaborator was called / an effect happened
Called(op) == {calls[j].idx : j \in {i \in 1..Len(calls) : calls[i].op = op}}

Processed == 1..Len(governance_events)

\* the evaluator's decision for every policy, path and risk level
DecisionTable ==
    [src \in PolicySources |-> [comp \in BOOLEAN |-> [p \in RunPaths |->
        [r \in RiskLevels |-> PolicyTable[src][comp][p][r].decision]]]]

\* change k of the plan has a safe path and a valid action: the analyzer,
\* the evaluator and the scanner are consulted for it
Assessed(k) ==
    /\ ResolvedRun[plan[k].path].ok
    /\ plan[k].action \in ValidActions

\* the loop body of run() has finished for change k
Accounted(k) == idx > k

\* what the evaluator answers for change k at the risk level its event records
DecisionFor(k) ==
    IF governance_events[k].risk_level \in RiskLevels
    THEN DecisionTable[policy_source][compliance_mode][plan[k].path][governance_events[k].risk_level]
    ELSE evaluate(policy_config(policy_source, compliance_mode),
                  ResolvedRun[plan[k].path].path,
                  governance_events[k].risk_level).decision

\* the call that the last step added, if it added one
NewCalls == IF Len(calls') > Len(calls)
            THEN {calls'[j] : j \in (Len(calls) + 1)..Len(calls')} ELSE {}

\* C1: in SafeAgent.run a change is executed (and the filesystem mutated)
\* only once its governance event has been appended with an approved_*
\* outcome; a change whose event is blocked_* or rejected_interactive is
\* never applied.
C1_AppliedOnlyAfterApproval ==
    /\ [] (\A k \in Processed :
              governance_events[k].outcome \notin ApprovedOutcomes
                  => k \notin Called("execute") \cup Called("fs"))
    /\ [][ \A c \in NewCalls :
              c.op \in {"execute", "fs"}
                  => /\ c.idx \in Processed
                     /\ governance_events[c.idx].outcome \in ApprovedOutcomes ]_vars

C1_Witness ==
    /\ Len(governance_events) = 2
    /\ governance_events[1].outcome = "rejected_interactive"
    /\ governance_events[2].outcome = "approved_interactive"
    /\ Called("fs") = {2}

\* C2: DENY always wins: a change with a safe path and a valid action for
\* which the evaluator decides DENY is recorded as blocked_by_policy_deny
\* and is not approved, whatever fail_on_risk, the risk level,
\* non_interactive, auto_approve_low_risk and dry_run are, in both runners.
C2_DenyAlwaysWins ==
    \A k \in Processed :
        (Assessed(k) /\ DecisionFor(k) = "deny")
            => /\ governance_events[k].outcome = "blocked_by_policy_deny"
               /\ governance_events[k].policy_decision = "deny"
               /\ k \notin Range(changes_made)
               /\ k \notin Called("execute")
               /\ (pc = "returned" /\ idx = k => ~approved)

C2_Witness ==
    /\ engine = "SafeAgent"
    /\ pc = "done"
    /\ auto_approve_low_risk
    /\ fail_on_risk = "low"
    /\ \E k \in Processed :
        /\ governance_events[k].outcome = "blocked_by_policy_deny"
        /\ governance_events[k].risk_level = "medium"
        /\ governance_events[k].matched_rule_id = None

\* C3: when run() has returned on a plan of N changes, the event log holds
\* exactly N events, the k-th for the k-th change, each with one of the ten
\* outcomes; an unsafe path or an unknown action rejects that change only,
\* and the changes after it have been processed.
C3_OneEventPerChange ==
    pc = "done"
        => /\ Len(governance_events) = Len(plan)
           /\ \A k \in 1..Len(plan) :
                /\ governance_events[k].outcome \in Outcomes
                /\ governance_events[k].path = plan[k].path
                /\ governance_events[k].action = plan[k].action
                /\ ~ResolvedRun[plan[k].path].ok
                       => governance_events[k].outcome = "blocked_unsafe_path"
                /\ (ResolvedRun[plan[k].path].ok
                        /\ plan[k].action \notin ValidActions)
                       => governance_events[k].outcome = "blocked_unknown_action"
                /\ governance_events[k].outcome
                       \in {"blocked_unsafe_path", "blocked_unknown_action"}
                       => k \in Range(changes_rejected)

C3_Witness ==
    /\ pc = "done"
    /\ Len(plan) = 2
    /\ governance_events[1].outcome = "blocked_unknown_action"
    /\ governance_events[2].outcome = "approved_non_interactive"

\* C4: in a dry run nothing is executed and the filesystem is never
\* mutated, and the finalized audit summary reports changes_executed = 0,
\* also for changes whose recorded outcome is an approval.
C4_DryRunExecutesNothing ==
    dry_run
        => /\ Called("execute") = {}
           /\ Called("fs") = {}
           /\ audit_trail.finalized => audit_trail.summary.changes_executed = 0

C4_Witness ==
    /\ dry_run
    /\ pc = "done"
    /\ audit_trail.finalized
    /\ \E k \in Processed : governance_events[k].outcome = "approved_non_interactive"
    /\ \E k \in Processed : governance_events[k].outcome = "blocked_unsafe_path"

LaterStepOutcomes ==
    {"approved_non_interactive", "blocked_non_interactive_requires_approval",
     "approved_auto_low_risk", "blocked_dry_run", "approved_interactive",
     "rejected_interactive"}

\* the risk level the analyzer returned in the step just taken, when the step
\* was the analysis of a change
AnalyzedRisk ==
    IF Len(governance_events') > Len(governance_events)
    THEN governance_events'[Len(governance_events')].risk_level
    ELSE locals'.risk_level

\* C5: with a fail_on_risk threshold configured and a policy decision other
\* than DENY, a change at or above the threshold is recorded as
\* blocked_by_fail_on_risk, is not approved and sets risk_policy_failed; a
\* change below the threshold leaves risk_policy_failed as it was and gets
\* the outcome of one of the later steps.
C5_FailOnRisk ==
    /\ [] (\A k \in Processed :
              (fail_on_risk # None /\ Assessed(k) /\ DecisionFor(k) # "deny")
                  => IF risk_severity(governance_events[k].risk_level)
                            >= risk_severity(fail_on_risk)
                     THEN /\ governance_events[k].outcome = "blocked_by_fail_on_risk"
                          /\ k \notin Range(changes_made)
                          /\ k \notin Called("execute")
                          /\ risk_policy_failed
                     ELSE governance_events[k].outcome \in LaterStepOutcomes)
    /\ [][ (pc = "analyze" /\ fail_on_risk # None
                /\ risk_severity(AnalyzedRisk) < risk_severity(fail_on_risk))
              => risk_policy_failed' = risk_policy_failed ]_vars

C5_Witness ==
    /\ pc = "done"
    /\ fail_on_risk = "high"
    /\ Len(governance_events) = 2
    /\ governance_events[1].outcome = "approved_non_interactive"
    /\ governance_events[1].risk_level = "medium"
    /\ governance_events[2].outcome = "blocked_by_fail_on_risk"
    /\ governance_events[2].risk_level = "high"
    /\ risk_policy_failed

\* the resolved target of change k contains none of the deny rule's substrings
NonSecret(k) ==
    \A sub \in SecretSubstrings :
        ~target_has(ResolvedRun[plan[k].path].path, sub)

\* what the claim says of an assessed, non-secret change of a non-interactive
\* SafeAgent run with the builtin policy and no fail_on_risk
C6_Outcome(k) ==
    IF governance_events[k].risk_level \in {"low", "medium"}
    THEN governance_events[k].outcome = "approved_non_interactive"
    ELSE /\ governance_events[k].outcome = "blocked_non_interactive_requires_approval"
         /\ k \notin Called("execute")
         /\ k \notin Range(changes_made)
         /\ Accounted(k) => k \in Range(changes_rejected)

\* C6 as stated: the builtin policy approves LOW and MEDIUM and holds back
\* HIGH and CRITICAL in every non-interactive SafeAgent run without
\* fail_on_risk.
C6_Original ==
    (engine = "SafeAgent" /\ non_interactive /\ policy_source = "builtin"
        /\ fail_on_risk = None)
        => \A k \in Processed : (Assessed(k) /\ NonSecret(k)) => C6_Outcome(k)

\* C6, amended: the same, for a SafeAgent constructed without compliance
\* mode (whose builtin policy has the allow rule for low and medium risk),
\* also when auto_approve_low_risk was requested.
C6_BuiltinNonInteractive ==
    (engine = "SafeAgent" /\ non_interactive /\ policy_source = "builtin"
        /\ fail_on_risk = None /\ ~compliance_mode)
        => \A k \in Processed : (Assessed(k) /\ NonSecret(k)) => C6_Outcome(k)

C6_Witness ==
    /\ engine = "SafeAgent" /\ non_interactive /\ policy_source = "builtin"
    /\ fail_on_risk = None /\ ~compliance_mode /\ requested_auto_approve
    /\ pc = "done"
    /\ Len(governance_events) = 2
    /\ governance_events[1].risk_level = "medium"
    /\ governance_events[1].outcome = "approved_non_interactive"
    /\ governance_events[2].risk_level = "high"
    /\ governance_events[2].outcome = "blocked_non_interactive_requires_approval"
    /\ changes_rejected = <<2>>

\* C7: when a run has returned, every change of the plan is in exactly one
\* of changes_made and changes_rejected: in changes_made when its event is
\* an approval, in changes_rejected otherwise, in every mode.
C7_MadeOrRejected ==
    pc = "done"
        => \A k \in 1..Len(plan) :
            /\ (k \in Range(changes_made)) # (k \in Range(changes_rejected))
            /\ (k \in Range(changes_made))
                   <=> (governance_events[k].outcome \in ApprovedOutcomes)

\* C8: a change whose path the resolver refuses is recorded as
\* blocked_unsafe_path at risk critical, which becomes max_risk_level_seen;
\* it is rejected, and neither the analyzer, the evaluator nor the scanner
\* is called for it; risk_policy_failed is set if any fail_on_risk threshold
\* is configured, and is never set without one.
C8_UnsafePath ==
    /\ \A k \in Processed :
        ~ResolvedRun[plan[k].path].ok
            => /\ governance_events[k].outcome = "blocked_unsafe_path"
               /\ governance_events[k].risk_level = "critical"
               /\ governance_events[k].policy_decision = None
               /\ max_risk_level_seen = "critical"
               /\ k \notin Called("analyze") \cup Called("evaluate") \cup Called("scan")
               /\ k \notin Range(changes_made) /\ k \notin Called("execute")
               /\ Accounted(k) => k \in Range(changes_rejected)
               /\ fail_on_risk # None => risk_policy_failed
    /\ fail_on_risk = None => ~risk_policy_failed

C8_Witness ==
    /\ pc = "done"
    /\ fail_on_risk = "critical"
    /\ Len(governance_events) = 2
    /\ governance_events[1].outcome = "blocked_unsafe_path"
    /\ governance_events[2].risk_level = "low"
    /\ max_risk_level_seen = "critical"
    /\ risk_policy_failed
    /\ changes_rejected = <<1>>

\* the categories of raw path the resolver must refuse
IsDriveLetter(raw) == Len(raw) >= 2 /\ raw[2] = ":" /\ raw[1] \in Alpha
IsUNC(raw) == startswith(raw, <<"\\", "\\">>)
PlainRelative == { <<"a">>, <<"a", "/", "a">>, <<".", "/", "a">> }

\* C9: the resolver returns a path only if the raw path, joined to the
\* working root and canonicalized on the given filesystem, lies inside the
\* root; absolute paths, ~ paths, paths with NUL, drive-letter and UNC
\* prefixes, .. traversal out of the root and symlink escapes return None;
\* plain relative paths are accepted.
C9_PathSafety ==
    pc = "path_done"
        => LET raw == strip(path_in)
               canonical == resolve(WorkingRoot, parts(raw), fs_in)
           IN  /\ path_out.ok
                    => /\ path_out.path = canonical
                       /\ relative_to(canonical, WorkingRoot)
               /\ (is_absolute(raw) \/ startswith(raw, <<"~">>) \/ contains(raw, NUL)
                     \/ IsDriveLetter(raw) \/ IsUNC(raw)
                     \/ ~relative_to(canonical, WorkingRoot))
                    => ~path_out.ok
               /\ (path_in \in PlainRelative /\ fs_in = {})
                    => path_out = SomePath(WorkingRoot \o parts(path_in))

\* a symlink inside the root that leads out of it is refused
C9_Witness ==
    /\ pc = "path_done"
    /\ path_in = <<"a", "/", "a">>
    /\ \E l \in fs_in : ~relative_to(l.to, WorkingRoot)
    /\ ~path_out.ok

\* C10: the k-th event carries the path and action of the k-th change; the
\* log only grows, by one event at its end; and no collaborator is called
\* for change k+1 before the event of change k has been appended.
C10_SequentialInOrder ==
    /\ [] (\A k \in Processed :
              /\ governance_events[k].path = plan[k].path
              /\ governance_events[k].action = plan[k].action)
    /\ [][ /\ Len(governance_events') \in
                 {Len(governance_events), Len(governance_events) + 1}
           /\ SubSeq(governance_events', 1, Len(governance_events)) = governance_events
           /\ \A c \in NewCalls :
                /\ c.idx <= Len(governance_events) + 1
                /\ c.op \in {"resolve", "analyze"} => c.idx = Len(governance_events) + 1
          ]_vars

C10_Witness ==
    /\ pc = "analyze"
    /\ idx = 2
    /\ Len(governance_events) = 1
    /\ plan[1] # plan[2]
    /\ Called("resolve") = {1, 2}

\* the changes denied by policy so far, and the reason each denial stores
Denied == {k \in Processed : governance_events[k].outcome = "blocked_by_policy_deny"}

deny_reason(k) ==
    IF governance_events[k].matched_rule_id # None
    THEN governance_events[k].matched_rule_id ELSE "policy_denied"

FirstOf(S) == CHOOSE k \in S : \A j \in S : k <= j
LastOf(S) == CHOOSE k \in S : \A j \in S : j <= k

\* C11: first DENY wins: when a run has returned and several of its changes
\* were denied by policy, governance_policy_reason is the matched rule id
\* (or "policy_denied") of the first denied change in list order.
C11_FirstDenyWins ==
    (pc = "done" /\ Denied # {})
        => governance_policy_reason = deny_reason(FirstOf(Denied))

\* severity of max_risk_level_seen, below every level when it is None
seen_severity(seen) == IF seen = None THEN -1 ELSE risk_severity(seen)

\* the risk levels _note_risk has been called with so far: the level of every
\* event that carries one, and the level of the change waiting at the prompt
NotedRisks ==
    {governance_events[k].risk_level :
        k \in {j \in Processed : governance_events[j].risk_level # None}}
    \cup (IF pc = "prompt" THEN {locals.risk_level} ELSE {})

\* C12: the severity of max_risk_level_seen never decreases during a run,
\* and it is the highest severity among the risk levels noted so far (None
\* when none was noted), in particular when the run has returned.
C12_MaxRiskMonotonic ==
    /\ [] /\ (max_risk_level_seen = None) <=> (NotedRisks = {})
          /\ max_risk_level_seen # None
                => /\ max_risk_level_seen \in NotedRisks
                   /\ \A r \in NotedRisks :
                        risk_severity(r) <= risk_severity(max_risk_level_seen)
    /\ [][ seen_severity(max_risk_level_seen')
              >= seen_severity(max_risk_level_seen) ]_vars

C12_Witness ==
    /\ pc = "done"
    /\ Len(governance_events) = 2
    /\ governance_events[1].risk_level = "high"
    /\ governance_events[2].risk_level = "low"
    /\ max_risk_level_seen = "high"

\* the step just taken appended the event of a change
EventAppended == Len(governance_events') = Len(governance_events) + 1
NewEvent == governance_events'[Len(governance_events')]

\* C13 as stated: a step that finishes a change for which the analyzer was
\* not invoked leaves max_risk_level_seen as it was.
C13_Original ==
    [][ (EventAppended /\ Len(governance_events') \notin Called("analyze")')
          => max_risk_level_seen' = max_risk_level_seen ]_vars

\* C13, amended: a step that records a change with an unknown action leaves
\* max_risk_level_seen as it was (a change with an unsafe path, for which
\* the analyzer is not invoked either, raises it to critical).
C13_UnknownActionNoRisk ==
    [][ (EventAppended /\ NewEvent.outcome = "blocked_unknown_action")
          => /\ max_risk_level_seen' = max_risk_level_seen
             /\ NewEvent.risk_level = None ]_vars

C13_Witness ==
    /\ pc = "done"
    /\ Len(governance_events) = 2
    /\ governance_events[1].risk_level = "high"
    /\ governance_events[2].outcome = "blocked_unknown_action"
    /\ governance_events[2].risk_level = None
    /\ max_risk_level_seen = "high"

\* C14: a SafeAgent constructed with compliance_mode=true has
\* auto_approve_low_risk=false whatever the caller requested, and no event of
\* its run has outcome approved_auto_low_risk; without compliance mode the
\* requested value is kept.
C14_ComplianceNoAutoApprove ==
    engine = "SafeAgent"
        => /\ compliance_mode
                => /\ ~auto_approve_low_risk
                   /\ \A k \in Processed :
                        governance_events[k].outcome # "approved_auto_low_risk"
           /\ ~compliance_mode => auto_approve_low_risk = requested_auto_approve

\* a low-risk change the policy allows, which auto-approve would have taken,
\* goes to the prompt
C14_Witness ==
    /\ engine = "SafeAgent" /\ compliance_mode /\ requested_auto_approve
    /\ ~non_interactive /\ ~dry_run
    /\ pc = "done"
    /\ \E k \in Processed :
        /\ governance_events[k].risk_level = "low"
        /\ governance_events[k].policy_decision = "allow"
        /\ governance_events[k].outcome = "approved_interactive"

\* C15: with the builtin policy, compliance mode on or off, a change with a
\* valid action whose path is a secret file (.env) is recorded as
\* blocked_by_policy_deny with matched_rule_id builtin:deny-secrets-and-keys
\* at every risk level and in every mode, is never applied, and sets
\* governance_policy_failed.
C15_BuiltinDeniesSecrets ==
    policy_source = "builtin"
        => \A k \in Processed :
            (Assessed(k) /\ plan[k].path = SecretPath)
                => /\ governance_events[k].outcome = "blocked_by_policy_deny"
                   /\ governance_events[k].matched_rule_id = DenySecretsRule.id
                   /\ governance_policy_failed
                   /\ governance_policy_reason = DenySecretsRule.id
                   /\ k \notin Range(changes_made) \cup Called("execute")

C15_Witness ==
    /\ engine = "SafeAgent" /\ policy_source = "builtin" /\ ~compliance_mode
    /\ ~non_interactive /\ auto_approve_low_risk /\ fail_on_risk = "low"
    /\ pc = "done"
    /\ \E k \in Processed :
        /\ plan[k].path = SecretPath
        /\ governance_events[k].risk_level = "low"
        /\ governance_events[k].outcome = "blocked_by_policy_deny"
    /\ governance_policy_failed

BlockedOutcomes ==
    {"blocked_unsafe_path", "blocked_unknown_action", "blocked_by_policy_deny",
     "blocked_by_fail_on_risk", "blocked_non_interactive_requires_approval",
     "blocked_dry_run"}

\* C16: with compliance_mode=true and the builtin policy, the evaluator
\* never answers ALLOW, and a non-interactive run (of either runner)
\* approves no change at any risk level: changes_made stays empty, nothing
\* is executed and every event outcome is a blocked_* outcome.
C16_ComplianceApprovesNothing ==
    (compliance_mode /\ policy_source = "builtin" /\ non_interactive)
        => /\ changes_made = <<>>
           /\ Called("execute") = {}
           /\ \A k \in Processed :
                /\ governance_events[k].outcome \in BlockedOutcomes
                /\ governance_events[k].policy_decision # "allow"

C16_Witness ==
    /\ engine = "SafeAgent"
    /\ compliance_mode /\ policy_source = "builtin" /\ non_interactive
    /\ fail_on_risk = None
    /\ pc = "done"
    /\ Len(governance_events) = 2
    /\ governance_events[1].risk_level = "low"
    /\ governance_events[1].outcome = "blocked_non_interactive_requires_approval"
    /\ governance_events[2].outcome = "blocked_by_policy_deny"
    /\ changes_rejected = <<1, 2>>

\* outcomes that reject or approve a change without failing the run
BenignOutcomes ==
    ApprovedOutcomes \cup
    {"blocked_non_interactive_requires_approval", "rejected_interactive",
     "blocked_dry_run", "blocked_unknown_action"}

\* no change of the run was denied by policy or stopped by fail_on_risk, and
\* an unsafe path occurred only with no fail_on_risk configured
BenignOnly ==
    \A k \in Processed :
        \/ governance_events[k].outcome \in BenignOutcomes
        \/ /\ governance_events[k].outcome = "blocked_unsafe_path"
           /\ fail_on_risk = None

\* C17: a run returns success=false exactly when risk_policy_failed or
\* governance_policy_failed is set at its end; a run whose changes were only
\* approved, held back for approval non-interactively, rejected by the human,
\* skipped by dry-run, or blocked as unsafe paths (or unknown actions) with
\* no fail_on_risk configured returns success=true.
C17_SuccessFlag ==
    pc = "done"
        => /\ result.returned
           /\ result.success <=> ~(risk_policy_failed \/ governance_policy_failed)
           /\ BenignOnly => result.success

C17_Witness ==
    /\ engine = "SafeAgent" /\ ~non_interactive /\ fail_on_risk = None
    /\ pc = "done"
    /\ Len(governance_events) = 2
    /\ governance_events[1].outcome = "blocked_unsafe_path"
    /\ governance_events[2].outcome = "rejected_interactive"
    /\ changes_rejected = <<1, 2>>
    /\ result.success

\* C18: in the audit summary written at the end of a SafeAgent run,
\* total_changes_planned is the number of changes of the plan (and of
\* governance events), and it is changes_approved + changes_rejected, in
\* every mode including dry-run.
C18_AuditCounters ==
    (engine = "SafeAgent" /\ pc = "done")
        => /\ audit_trail.summary.total_changes_planned = Len(plan)
           /\ audit_trail.summary.total_changes_planned = Len(governance_events)
           /\ audit_trail.summary.total_changes_planned =
                  audit_trail.summary.changes_approved
                  + audit_trail.summary.changes_rejected

\* positions in the call history of the calls of one kind
CallPos(op) == {j \in 1..Len(calls) : calls[j].op = op}

FinishOps == {"finalize", "export", "write"}

\* the audit trail is finalized exactly once, when the run returns, after
\* every change has been processed, and is marked complete
FinalizedAtEnd ==
    /\ pc # "done" => (~audit_trail.finalized /\ audit_file = <<>>
                         /\ CallPos("finalize") = {})
    /\ pc = "done"
         => /\ audit_trail.finalized
            /\ audit_trail.audit_trail_complete
            /\ Len(governance_events) = Len(plan)
            /\ Cardinality(CallPos("finalize")) = 1
            /\ \A f \in CallPos("finalize") :
                 /\ \A j \in 1..Len(calls) : calls[j].op \notin FinishOps => j < f
                 /\ \A w \in CallPos("export") \cup CallPos("write") : f < w
            /\ audit_file # <<>> => audit_file[1] = audit_trail

\* C19 as stated: every SafeAgent run that returns has finalized its audit
\* trail after the last change, with audit_trail_complete = true, and the
\* trail is on disk if and only if an export path was configured.
C19_Original ==
    /\ FinalizedAtEnd
    /\ pc = "done" => (audit_file # <<>> <=> audit_export_path # None)

\* C19, amended: the same, where export_audit_trail is called if and only
\* if an export path was configured, and the trail is on disk only if it was
\* called and its write did not fail (a failing write is caught and the run
\* still returns).
C19_AuditFinalizedAndExported ==
    /\ FinalizedAtEnd
    /\ pc = "done"
         => /\ CallPos("export") # {} <=> audit_export_path # None
            /\ audit_file # <<>> <=> CallPos("write") # {}
            /\ CallPos("write") # {} => CallPos("export") # {}

C19_Witness ==
    /\ pc = "done"
    /\ audit_export_path # None
    /\ Len(plan) = 2
    /\ Called("fs") = {2}
    /\ audit_file = <<audit_trail>>
    /\ audit_trail.audit_trail_complete
    /\ audit_trail.summary.changes_rejected = 1

\* applying change k raised: _execute_change was called for a create or a
\* modify and the file was not written
ExecutionFailed(k) ==
    /\ k \in Called("execute") \ Called("fs")
    /\ plan[k].action \in {"create", "modify"}

\* C20: a failure while applying an approved change propagates out of run()
\* and ends the run: run() returns no result, the failed change is not
\* listed as made, and no later change is processed.
C20_FailurePropagates ==
    \A k \in 1..Len(plan) :
        ExecutionFailed(k)
            => /\ ~result.returned
               /\ k \notin Range(changes_made)
               /\ idx <= k
               /\ Len(governance_events) <= k

\* change k passed the DENY test and the fail_on_risk test
PastGates(k) ==
    /\ Assessed(k)
    /\ DecisionFor(k) # "deny"
    /\ ~fail_on_risk_triggered(fail_on_risk, governance_events[k].risk_level)

\* C29: in non-interactive mode (SafeAgent or the diff gate), a change
\* that is not denied and does not trigger fail_on_risk is recorded as
\* approved_non_interactive if and only if the policy decision is ALLOW, at
\* every risk level, and as blocked_non_interactive_requires_approval
\* otherwise, whatever auto_approve_low_risk and dry_run are.
C29_NonInteractiveAllow ==
    non_interactive
        => \A k \in Processed :
            PastGates(k)
                => governance_events[k].outcome =
                       IF DecisionFor(k) = "allow" THEN "approved_non_interactive"
                       ELSE "blocked_non_interactive_requires_approval"

C29_Witness ==
    /\ engine = "SafeAgent" /\ non_interactive /\ dry_run /\ auto_approve_low_risk
    /\ pc = "done"
    /\ Len(governance_events) = 2
    /\ governance_events[1].risk_level = "high"
    /\ governance_events[1].outcome = "approved_non_interactive"
    /\ governance_events[2].risk_level = "low"
    /\ governance_events[2].outcome = "approved_non_interactive"

HumanStepOutcomes == {"blocked_dry_run", "approved_interactive", "rejected_interactive"}

\* C30: approved_auto_low_risk is recorded only by an interactive SafeAgent
\* with auto_approve_low_risk enabled, for a change at risk exactly LOW
\* with policy decision ALLOW; an interactive change past the DENY and
\* fail_on_risk tests whose risk is above LOW or whose decision is
\* REQUIRE_APPROVAL is never auto-approved: it gets blocked_dry_run in a dry
\* run and the answer of the human prompt otherwise.
C30_AutoApproveLowRisk ==
    \A k \in Processed :
        /\ governance_events[k].outcome = "approved_auto_low_risk"
              => /\ engine = "SafeAgent" /\ ~non_interactive /\ auto_approve_low_risk
                 /\ governance_events[k].risk_level = "low"
                 /\ governance_events[k].policy_decision = "allow"
                 /\ DecisionFor(k) = "allow"
        /\ (~non_interactive /\ PastGates(k)
               /\ (governance_events[k].risk_level # "low"
                      \/ DecisionFor(k) = "require_approval"))
              => /\ governance_events[k].outcome \in HumanStepOutcomes
                 /\ dry_run <=> governance_events[k].outcome = "blocked_dry_run"
                 /\ ~dry_run => k \in Called("prompt")

C30_Witness ==
    /\ engine = "SafeAgent" /\ ~non_interactive /\ auto_approve_low_risk /\ ~dry_run
    /\ pc = "done"
    /\ Len(governance_events) = 2
    /\ governance_events[1].risk_level = "low"
    /\ governance_events[1].outcome = "approved_auto_low_risk"
    /\ governance_events[2].risk_level = "medium"
    /\ governance_events[2].policy_decision = "allow"
    /\ governance_events[2].outcome = "approved_interactive"

\* C21: the machine report's run_status is requires_approval if any event
\* has outcome blocked_non_interactive_requires_approval, even when a flag
\* is set; else blocked if risk_policy_failed or governance_policy_failed;
\* else passed when the caller's success flag is true and failed when it is
\* false.
C21_RunStatusPriority ==
    report.built
        => /\ has_outcome(governance_events, "blocked_non_interactive_requires_approval")
                => report.run_status = "requires_approval"
           /\ (~has_outcome(governance_events, "blocked_non_interactive_requires_approval")
                 /\ (risk_policy_failed \/ governance_policy_failed))
                => report.run_status = "blocked"
           /\ (~has_outcome(governance_events, "blocked_non_interactive_requires_approval")
                 /\ ~risk_policy_failed /\ ~governance_policy_failed)
                => report.run_status = (IF report.success THEN "passed" ELSE "failed")

C21_Witness ==
    /\ report.built
    /\ governance_policy_failed /\ risk_policy_failed
    /\ has_outcome(governance_events, "blocked_by_policy_deny")
    /\ has_outcome(governance_events, "blocked_non_interactive_requires_approval")
    /\ report.run_status = "requires_approval"

AdviceOrder ==
    <<"review_blocking_rules", "adjust_fail_on_risk", "rerun_interactive",
      "investigate_scanner">>

AdviceRank(kind) == CHOOSE r \in 1..Len(AdviceOrder) : AdviceOrder[r] = kind

\* the condition under which each advice is due, read off the log and flags
AdviceDue(kind) ==
    CASE kind = "review_blocking_rules" ->
            \E k \in 1..Len(governance_events) :
                /\ governance_events[k].outcome = "blocked_by_policy_deny"
                /\ governance_events[k].matched_rule_id # None
      [] kind = "adjust_fail_on_risk" -> risk_policy_failed /\ fail_on_risk # None
      [] kind = "rerun_interactive" ->
            \E k \in 1..Len(governance_events) :
                governance_events[k].outcome = "blocked_non_interactive_requires_approval"
      [] kind = "investigate_scanner" ->
            \E k \in 1..Len(governance_events) :
                governance_events[k].scanner_reason_ids # {}

LineCount(line) ==
    IF line.code \in {"A", "M", "D"} THEN 1 ELSE IF line.code = "R" THEN 2 ELSE 0

RECURSIVE CountBefore(_)
CountBefore(i) == IF i <= 1 THEN 0 ELSE CountBefore(i - 1) + LineCount(git_status[i - 1])

LineAction(code) ==
    IF code = "A" THEN "create" ELSE IF code = "M" THEN "modify" ELSE "delete"

Collected == collected.returned /\ ~collected.error

\* C23: every rename status line expands to exactly two changes, delete(old
\* path) immediately followed by create(new path), and the changes of the
\* status lines appear in the order of the lines: the changes of line i
\* start right after the changes of lines 1..i-1.
C23_RenameExpansion ==
    Collected
        => /\ Len(collected.changes) >= CountBefore(Len(git_status) + 1)
           /\ \A i \in 1..Len(git_status) :
                LET line == git_status[i]
                    at == CountBefore(i) + 1
                IN  /\ line.code = "R"
                        => /\ collected.changes[at].action = "delete"
                           /\ collected.changes[at].path = line.paths[1]
                           /\ collected.changes[at + 1].action = "create"
                           /\ collected.changes[at + 1].path = line.paths[2]
                    /\ line.code \in {"A", "M", "D"}
                        => /\ collected.changes[at].action = LineAction(line.code)
                           /\ collected.changes[at].path = line.paths[1]

C23_Witness ==
    /\ Collected
    /\ Len(git_status) = 2
    /\ git_status[1].code = "M"
    /\ git_status[2].code = "R"
    /\ Len(collected.changes) = 3
    /\ collected.changes[2].description = "rename-delete"
    /\ collected.changes[3].description = "rename-create"

\* the untracked paths the diff step did not already produce, in order
RECURSIVE NewUntracked(_, _)
NewUntracked(lines, produced) ==
    IF lines = <<>> THEN <<>>
    ELSE (IF Head(lines) \in produced THEN <<>> ELSE <<Head(lines)>>)
         \o NewUntracked(Tail(lines), produced)

DiffStepCount == CountBefore(Len(git_status) + 1)

DiffStepPaths == {collected.changes[k].path : k \in 1..DiffStepCount}

\* C24: without a base ref, each untracked path not already produced by the
\* diff step is appended as one create change after all diff-derived
\* changes; with a base ref, no untracked file yields a change and git
\* ls-files is never run.
C24_UntrackedListing ==
    Collected
        => IF has_diff_ref(diff_ref)
           THEN /\ Len(collected.changes) = DiffStepCount
                /\ \A j \in 1..Len(calls) : calls[j].op # "git ls-files --others"
           ELSE LET extra == NewUntracked(git_untracked, DiffStepPaths)
                IN  /\ Len(collected.changes) = DiffStepCount + Len(extra)
                    /\ \A k \in 1..Len(extra) :
                        /\ collected.changes[DiffStepCount + k].action = "create"
                        /\ collected.changes[DiffStepCount + k].path = extra[k]

\* the diff_ref arguments the validation is meant to refuse
BadDiffRef(raw) ==
    \/ raw = <<>>
    \/ strip(raw) = <<>>
    \/ startswith(raw, <<"-">>)
    \/ contains(raw, NUL)
    \/ \E c \in Whitespace : contains(raw, c)

\* nothing was done with the runner: no collaborator call, no change
\* processed and no event recorded
NothingProcessed ==
    /\ calls = <<>>
    /\ plan = <<>>
    /\ idx = 0
    /\ governance_events = <<>>
    /\ changes_made = <<>>
    /\ changes_rejected = <<>>
    /\ ~result.returned

\* C25: a supplied diff_ref that is empty, whitespace-only, starts with
\* '-', or contains whitespace or a NUL byte makes the construction of the
\* DiffGateRunner end in a ValueError, and then nothing is ever processed.
C25_DiffRefRejected ==
    (construct.done /\ diff_ref_arg # <<>> /\ BadDiffRef(diff_ref_arg[1]))
        => /\ construct.error = "ValueError"
           /\ pc = "config_error"
           /\ NothingProcessed

\* C26: both policy arguments supplied, or a policy_path that resolves
\* outside the working directory, end the construction in a ValueError: no
\* policy file is loaded, no change is processed and no event is recorded;
\* and a policy file that is loaded lies below the working root.
C26_PolicyConfigRejected ==
    construct.done
        => /\ ( \/ truthy(policy_path) /\ truthy(policy_preset)
                \/ /\ truthy(policy_path)
                   /\ ~relative_to(resolve(IF is_absolute(strip(policy_path[1]))
                                           THEN <<>> ELSE WorkingRoot,
                                           parts(strip(policy_path[1])), fs_in),
                                   WorkingRoot) )
                => /\ construct.error = "ValueError"
                   /\ ~construct.loaded.ok
                   /\ pc = "config_error"
                   /\ NothingProcessed
           /\ construct.loaded.ok => relative_to(construct.loaded.path, WorkingRoot)

C26_Witness ==
    /\ construct.done
    /\ construct.error = "ValueError"
    /\ policy_path = << <<"/", "w", "/", "a">> >>
    /\ policy_preset = <<>>
    /\ fs_in # {}
    /\ pc = "config_error"

MachineReports == {k \in 1..Len(artifacts) : artifacts[k].kind = "machine_report"}

\* C27: with --json-out, the command line has written a machine report
\* whenever it exits non-zero after a run-level outcome: exit code 2 with
\* every requested artifact written when run() returned success=false, and
\* exit code 1 with a report of run_status "error" when a collaborator
\* raised out of run().
C27_ReportBeforeExit ==
    (exit_code # <<>> /\ json_out)
        => /\ (result.returned /\ ~result.success)
                => /\ exit_code = <<2>>
                   /\ MachineReports # {}
                   /\ policy_report
                        => \E k \in 1..Len(artifacts) : artifacts[k].kind = "policy_report"
           /\ (raised # None /\ raised # "KeyboardInterrupt")
                => /\ exit_code = <<1>>
                   /\ \E k \in MachineReports : artifacts[k].run_status = "error"

\* the events a returned run recorded itself: the last Len(plan) of the log
OwnEvents ==
    { k \in 1..Len(governance_events) : k > Len(governance_events) - Len(plan) }

\* C28: what a returned run reports reflects only its own changes: the
\* event log holds one event per change of this run's plan, changes_made
\* and changes_rejected hold no more entries than the plan has changes, a
\* set governance flag comes from a deny among this run's events, and a
\* maximum risk level from one of this run's events.
C28_PrivateLog ==
    result.returned
        => /\ Len(governance_events) = Len(plan)
           /\ Len(changes_made) + Len(changes_rejected) <= Len(plan)
           /\ governance_policy_failed
                => \E k \in OwnEvents : governance_events[k].outcome = "blocked_by_policy_deny"
           /\ max_risk_level_seen # None
                => \E k \in OwnEvents : governance_events[k].risk_level = max_risk_level_seen

\* positions in the call log of the calls made for change k
CallsFor(k) == {j \in 1..Len(calls) : calls[j].idx = k}

GateOps == {"resolve", "analyze", "evaluate", "scan", "prompt"}

InteractiveOutcomes == {"approved_interactive", "rejected_interactive"}

\* C31: the human is prompted at most once per change and only as the last
\* step of the gate: never for a change with an unsafe path, an unknown
\* action, a DENY decision or a triggered fail_on_risk, never in
\* non-interactive mode and never in dry-run mode; the event of a prompted
\* change is approved_interactive when the answer was yes and
\* rejected_interactive otherwise, and only a prompted change has one of
\* these outcomes.
C31_PromptLastAndOnce ==
    /\ \A j \in 1..Len(calls) :
        calls[j].op = "prompt"
            => LET k == calls[j].idx
               IN  /\ \A i \in CallsFor(k) :
                        /\ (calls[i].op = "prompt" => i = j)
                        /\ (calls[i].op \in GateOps => i <= j)
                   /\ engine = "SafeAgent" /\ ~non_interactive /\ ~dry_run
                   /\ k \in Processed
                   /\ PastGates(k)
                   /\ governance_events[k].outcome \in InteractiveOutcomes
                   /\ (pc = "returned" /\ idx = k)
                        => (approved <=> governance_events[k].outcome = "approved_interactive")
    /\ \A k \in Processed :
        governance_events[k].outcome \in InteractiveOutcomes => k \in Called("prompt")

C31_Witness ==
    /\ Len(governance_events) = 2
    /\ governance_events[1].outcome = "rejected_interactive"
    /\ governance_events[2].outcome = "approved_interactive"
    /\ governance_events[2].risk_level = "critical"
    /\ Called("prompt") = {1, 2}
    /\ pc = "returned" /\ approved

\* C32: governance_policy_failed is true if and only if at least one event
\* has outcome blocked_by_policy_deny; when it is true
\* governance_policy_reason is non-null, the matched rule id of a denied
\* event or the literal policy_denied when that event has no rule id; and
\* a finalized audit summary's policy_violations is the number of such
\* events.
C32_GovernanceFlag ==
    /\ governance_policy_failed <=> Denied # {}
    /\ governance_policy_failed
        => /\ governance_policy_reason # None
           /\ \E k \in Denied : governance_policy_reason = deny_reason(k)
    /\ ~governance_policy_failed => governance_policy_reason = None
    /\ audit_trail.finalized
        => audit_trail.summary.policy_violations = Cardinality(Denied)

C32_Witness ==
    /\ audit_trail.finalized
    /\ audit_trail.summary.policy_violations = 1
    /\ Len(governance_events) = 2
    /\ governance_events[1].outcome = "blocked_by_policy_deny"
    /\ governance_events[1].matched_rule_id = None
    /\ governance_events[2].outcome = "blocked_unknown_action"
    /\ governance_policy_reason = "policy_denied"

\* C33: every event carries the fields gathered up to its terminal branch:
\* blocked_unknown_action has null risk_level and null policy_decision;
\* blocked_unsafe_path has risk_level critical, null policy_decision and
\* no scanner reason; every other outcome has a risk level and a policy
\* decision.
C33_EventFields ==
    \A k \in Processed :
        LET e == governance_events[k]
        IN  /\ e.outcome = "blocked_unknown_action"
                => e.risk_level = None /\ e.policy_decision = None
            /\ e.outcome = "blocked_unsafe_path"
                => /\ e.risk_level = "critical"
                   /\ e.policy_decision = None
                   /\ e.scanner_reason_ids = {}
            /\ e.outcome \notin {"blocked_unknown_action", "blocked_unsafe_path"}
                => e.risk_level \in RiskLevels /\ e.policy_decision \in PolicyDecisions

C33_Witness ==
    /\ Len(governance_events) = 2
    /\ governance_events[1].outcome = "blocked_unknown_action"
    /\ governance_events[1].risk_level = None
    /\ governance_events[2].outcome = "blocked_by_fail_on_risk"
    /\ governance_events[2].policy_decision = "allow"
    /\ governance_events[2].scanner_reason_ids # {}

RiskBlockedOutcomes == {"blocked_by_fail_on_risk", "blocked_unsafe_path"}

\* C34: risk_policy_failed is set only by a change that is blocked by
\* fail-on-risk or by an unsafe path: whenever it is true, some event has
\* outcome blocked_by_fail_on_risk or blocked_unsafe_path; a change denied
\* by policy sets governance_policy_failed only, also when its risk level
\* meets the fail_on_risk threshold.
C34_RiskFlagOrigin ==
    risk_policy_failed
        => \E k \in Processed : governance_events[k].outcome \in RiskBlockedOutcomes

\* C35: every change SafeAgent lists in changes_made was applied to the
\* filesystem by _execute_change: a change whose write or delete failed, or
\* which the second path-safety check refused, is not counted as applied.
C35_MadeMeansApplied ==
    engine = "SafeAgent"
        => \A k \in Range(changes_made) : k \in Called("fs")

\* the machine report an adapter builds from the runner once run() returned
ReportOfRun ==
    build_machine_report(governance_events, risk_policy_failed,
                         governance_policy_failed, fail_on_risk, result.success)

\* C36: whenever the policy report of a returned run has status failed,
\* its recommended_next_actions is not the single line 'No blocking
\* findings. Safe to continue with normal review.', also when the run was
\* failed by a policy DENY that carries no matched rule id.
C36_NoAllClearOnFail ==
    (result.returned /\ ReportOfRun.status = "failed")
        => ReportOfRun.recommended_next_actions # <<Advice("no_blocking_findings", {})>>

\* C37: the machine report built from a returned run with run_success set
\* to the run's own success never has run_status failed; its run_status is
\* passed exactly when no event is blocked_non_interactive_requires_approval
\* and neither policy flag is set, and it is never passed while the run's
\* success is false.
C37_RunStatusOfRun ==
    result.returned
        => /\ ReportOfRun.run_status # "failed"
           /\ ReportOfRun.run_status = "passed"
                <=> /\ ~has_outcome(governance_events,
                                    "blocked_non_interactive_requires_approval")
                    /\ ~risk_policy_failed
                    /\ ~governance_policy_failed
           /\ ReportOfRun.run_status = "passed" => result.success

C37_Witness ==
    /\ result.returned
    /\ Len(governance_events) = 2
    /\ ReportOfRun.run_status = "passed"
    /\ result.success

\* C38: no operation writes the audit trail's changes list: it is empty in
\* every reachable state of a SafeAgent and in every audit file a run has
\* exported, also after changes were approved and applied.
C38_TrailChangesEmpty ==
    /\ audit_trail.changes = <<>>
    /\ \A k \in 1..Len(audit_file) : audit_file[k].changes = <<>>

C38_Witness ==
    /\ result.returned
    /\ Len(changes_made) = 2
    /\ audit_trail.finalized
    /\ audit_file = <<audit_trail>>

\* C39: the resolver never returns the working root itself: a raw path
\* that resolves to the root ('a/..', './.', './/') is rejected, and every
\* path it returns is a strict descendant of the working root.
C39_StrictDescendant ==
    path_out.ok
        => /\ path_out.path # WorkingRoot
           /\ Len(path_out.path) > Len(WorkingRoot)
           /\ relative_to(path_out.path, WorkingRoot)

\* the configurations in which the two engines are compared: DiffGateRunner,
\* and SafeAgent run non-interactively without dry run
Comparable == engine = "DiffGateRunner" \/ (non_interactive /\ ~dry_run)

\* what each engine's decision code yields for change k on the risk level
\* and policy decision recorded for it
AgentOutcome(k) ==
    agent_decision(DecisionFor(k), governance_events[k].risk_level,
                   fail_on_risk_triggered(fail_on_risk, governance_events[k].risk_level),
                   TRUE, auto_approve_low_risk, FALSE)

DiffOutcome(k) ==
    diff_gate_decision(DecisionFor(k), governance_events[k].risk_level, fail_on_risk)

Indices(n) == [k \in 1..n |-> k]

AccountedCount == IF idx = 0 THEN 0 ELSE idx - 1

IsApproved(k) == governance_events[k].outcome \in ApprovedOutcomes

IsRejected(k) == governance_events[k].outcome \notin ApprovedOutcomes

FailsRun(k) ==
    \/ governance_events[k].outcome \in {"blocked_by_policy_deny", "blocked_by_fail_on_risk"}
    \/ /\ governance_events[k].outcome = "blocked_unsafe_path"
       /\ fail_on_risk_triggered(fail_on_risk, "critical")

\* C40: the two engines agree: on the same changes with the same
\* path-safety, risk and policy results and the same fail_on_risk, SafeAgent
\* run non-interactively without dry run and DiffGateRunner record the same
\* sequence of outcomes, keep the same changes_made and changes_rejected
\* and return the same success: each of them records, for every change,
\* the outcome that both engines' decision code yields on those results,
\* lists the approved changes and the others in plan order, and succeeds
\* exactly when no recorded outcome fails the run.
C40_EnginesAgree ==
    Comparable
        => /\ \A k \in Processed :
                IF Assessed(k)
                THEN /\ governance_events[k].outcome = AgentOutcome(k)
                     /\ governance_events[k].outcome = DiffOutcome(k)
                ELSE governance_events[k].outcome =
                         (IF ~ResolvedRun[plan[k].path].ok THEN "blocked_unsafe_path"
                          ELSE "blocked_unknown_action")
           /\ changes_made = SelectSeq(Indices(AccountedCount), IsApproved)
           /\ changes_rejected = SelectSeq(Indices(AccountedCount), IsRejected)
           /\ result.returned
                => result.success = ~(\E k \in Processed : FailsRun(k))

C40_Witness ==
    /\ engine = "SafeAgent"
    /\ non_interactive
    /\ ~dry_run
    /\ result.returned
    /\ Len(governance_events) = 2
    /\ governance_events[1].outcome = "blocked_by_policy_deny"
    /\ fail_on_risk_triggered(fail_on_risk, governance_events[1].risk_level)
    /\ governance_events[2].outcome = "approved_non_interactive"
    /\ changes_made = <<2>>
    /\ changes_rejected = <<1>>
    /\ ~result.success

====
